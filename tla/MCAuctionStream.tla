-------------------------- MODULE MCAuctionStream --------------------------
(* A small auction house: of two offers under one key the dear one stays,  *)
(* the cheap one is sold in the second version and back in the third.      *)
EXTENDS AuctionStream, TLC

CONSTANTS sword, pet, cheap, dear, other

MCItemOf == cheap :> sword @@ dear :> sword @@ other :> pet
MCPriceOf == cheap :> 1 @@ dear :> 2 @@ other :> 1
MCHouseAt == << <<{other}, {dear}, {cheap}>>, <<{dear}, {other}>>, <<{other}, {cheap}, {dear}>> >>
Symmetry == Permutations(Workers)
=============================================================================
