------------------------------ MODULE MCReports ------------------------------
(* CmdResp with the name of a device and its power.                         *)
EXTENDS CmdResp

CONSTANTS name, power

NameAndPower == {name, power}
OneName == {name}
=============================================================================
