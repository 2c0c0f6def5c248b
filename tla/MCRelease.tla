------------------------------ MODULE MCRelease -----------------------------
(* The release workflow on a small repository.                             *)
EXTENDS RegistryPublication

const_Budget == <<3, 2>>
const_Bases == {<<1, 0, 0>>, <<1, 0, 1>>}
=============================================================================
