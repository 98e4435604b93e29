------------------------------ MODULE Channel -------------------------------
(***************************************************************************)
(* What a channel promises: the items put in come out one by one, in the   *)
(* order in which they were put in, none twice and none left out, and each *)
(* comes out in the end.  Items are known by their numbers.                *)
(***************************************************************************)
EXTENDS Naturals

VARIABLES put, taken

ChannelInit == put = 0 /\ taken = 0

Put  == put' = put + 1 /\ UNCHANGED taken
Take == taken < put /\ taken' = taken + 1 /\ UNCHANGED put

ChannelSafe == ChannelInit /\ [][Put \/ Take]_<<put, taken>>
ChannelSpec == ChannelSafe /\ WF_<<put, taken>>(Take)
=============================================================================
