------------------------ MODULE MCContractStorage ------------------------
(* ContractStorage for TLC: two contracts, one name, one storage value.    *)
EXTENDS ContractStorage
=============================================================================
