------------------------------- MODULE MCOwlVm -------------------------------
(* Instances of OwlVm for TLC. *)
EXTENDS OwlVmStore, OwlVmObjects, TLC

NoLiterals  == <<>>
OneText     == <<19>>
ShortName   == <<3>>
HalfOfEight == <<4>>

MainOnly     == 1 :> <<1>>
TwoFunctions == 1 :> <<1, 2>> @@ 2 :> <<1, 2>>
Library      == 1 :> <<1>> @@ 2 :> <<2>> @@ 3 :> <<>>
=============================================================================
