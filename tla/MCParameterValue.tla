-------------------------- MODULE MCParameterValue --------------------------
(* A chain of three parameters, set at both ends by two threads.           *)
EXTENDS ParameterValue
CONSTANTS a, b, d
MCLinks == {<<a, b>>, <<b, d>>}
=============================================================================
