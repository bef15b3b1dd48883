------------------------------- MODULE Layout -------------------------------
(***************************************************************************)
(* The bytes that cross between the program and its clients: accounts,     *)
(* events and instruction data.  Borsh writes a discriminator and then the *)
(* fields of a struct in its order, and names none of them, so that a      *)
(* decoder that has them in another order reads them without an error.  A  *)
(* value on the wire is the sequence of its fields; the bytes of a field,  *)
(* and the bump that every account keeps of its own address, are left out. *)
(* Name and description of a profile travel together, as in Ccsupport.     *)
(***************************************************************************)
LOCAL INSTANCE Naturals
LOCAL INSTANCE Sequences

-----------------------------------------------------------------------------
(* What the program writes: #[account] and #[event].                       *)

ConfigBytes(config) == <<"Config", config.mint, config.authority>>

CreatorBytes(wallet, creator) ==
  <<"Creator", wallet, creator.handle, creator.text, creator.suggested_amount,
    creator.pledges_total, creator.created_at>>

\* A handle account points to the address of its creator's account.
HandleBytes(creatorAddress) == <<"Handle", creatorAddress>>

PledgeBytes(creator, supporter, pledge) ==
  <<"Pledge", creator, supporter, pledge.started_at, pledge.expires_at, pledge.periods_total,
    pledge.contributions, pledge.show_publicly, pledge.last_slot>>

EventBytes(e) ==
  CASE e.kind = "creatorRegistered" ->
         <<"CreatorRegistered", e.wallet, e.handle, e.text, e.suggested_amount, e.slot>>
    [] e.kind = "creatorUpdated" ->
         <<"CreatorUpdated", e.wallet, e.handle, e.text, e.suggested_amount, e.slot>>
    [] e.kind = "pledged" ->
         <<"Pledged", e.creator, e.supporter, e.periods, e.started_at, e.expires_at,
           e.periods_total, e.contributions, e.show_publicly, e.slot>>
    [] e.kind = "visibilityChanged" ->
         <<"VisibilityChanged", e.creator, e.supporter, e.show_publicly, e.slot>>

-----------------------------------------------------------------------------
(* What the generated client reads.                                        *)

IdentifyAccount(data) ==
  IF data[1] \in {"Config", "Creator", "Handle", "Pledge"} THEN data[1] ELSE "unknown"

DecodeConfig(data) == [mint |-> data[2], authority |-> data[3]]

DecodeCreator(data) ==
  [wallet |-> data[2], handle |-> data[3], text |-> data[4], suggestedAmount |-> data[5],
   pledgesTotal |-> data[6], createdAt |-> data[7]]

DecodeHandle(data) == [creator |-> data[2]]

DecodePledgeEndFirst(data) ==   \* mutant: the two i64 of a term the other way round
  [creator |-> data[2], supporter |-> data[3], startedAt |-> data[5], expiresAt |-> data[4],
   periodsTotal |-> data[6], contributions |-> data[7], showPublicly |-> data[8],
   lastSlot |-> data[9]]
DecodePledge(data) ==
  [creator |-> data[2], supporter |-> data[3], startedAt |-> data[4], expiresAt |-> data[5],
   periodsTotal |-> data[6], contributions |-> data[7], showPublicly |-> data[8],
   lastSlot |-> data[9]]

DecodeCreatorRegisteredEvent(data) ==
  [kind |-> "creatorRegistered", wallet |-> data[2], handle |-> data[3], text |-> data[4],
   suggested_amount |-> data[5], slot |-> data[6]]

DecodeCreatorUpdatedEvent(data) ==
  [kind |-> "creatorUpdated", wallet |-> data[2], handle |-> data[3], text |-> data[4],
   suggested_amount |-> data[5], slot |-> data[6]]

DecodePledgedEvent(data) ==
  [kind |-> "pledged", creator |-> data[2], supporter |-> data[3], periods |-> data[4],
   started_at |-> data[5], expires_at |-> data[6], periods_total |-> data[7],
   contributions |-> data[8], show_publicly |-> data[9], slot |-> data[10]]

DecodeVisibilityChangedEvent(data) ==
  [kind |-> "visibilityChanged", creator |-> data[2], supporter |-> data[3],
   show_publicly |-> data[4], slot |-> data[5]]

-----------------------------------------------------------------------------
(* Instruction data: the client's encoders and decoders.  The program      *)
(* takes the arguments of a handler by their position, see Client.         *)

InitConfigData == <<"init_config">>
RegisterCreatorData(args) == <<"register_creator", args.handle, args.text>>
UpdateCreatorData(args) == <<"update_creator", args.text, args.suggestedAmount>>
MakePledgeData(args) == <<"pledge", args.periods, args.showPublicly>>
SetVisibilityData(args) == <<"set_visibility", args.showPublicly>>

IdentifyInstruction(data) ==
  IF data[1] \in {"init_config", "register_creator", "update_creator", "pledge", "set_visibility"}
    THEN data[1] ELSE "unknown"
=============================================================================
