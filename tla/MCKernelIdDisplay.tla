------------------------- MODULE MCKernelIdDisplay -------------------------
(* KernelId's Display over string infos, as the test of id.rs uses        *)
(* (KernelId::new::<()>().info("1")).  The Debug string of a &str is the   *)
(* string between quotes; a quote is one more ordinary character here.     *)
EXTENDS KernelIdDisplay

\* The contents of the strings: up to two characters, among them markers
\* and a comma.
StrContents == UNION {[1..n -> {"x", "(", ")", ","}] : n \in 0..2}
StrDebugInfos == {<<"x">> \o s \o <<"x">> : s \in StrContents}
=============================================================================
