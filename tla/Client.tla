------------------------------- MODULE Client -------------------------------
(***************************************************************************)
(* The client of the program: the addresses it derives, the instructions   *)
(* it builds, how the generated code parses them, what it reads of the     *)
(* chain; and next to it the program's side of the same agreement: what    *)
(* each handler requires of the accounts at its positions.                 *)
(*                                                                         *)
(* An address is a wallet or the tuple of seeds it is derived from.  An    *)
(* instruction is a program, account metas by position, and data.          *)
(***************************************************************************)
EXTENDS Ccsupport, Layout

\* getProgramDerivedAddress: different seeds, different addresses.
SystemProgram == <<"system">>
InstructionsSysvar == <<"instructions">>
FindConfigPda == <<"config">>
FindCreatorPda(wallet) == <<"creator", wallet>>
HandlePda(handle) == <<"handle", handle>>
PledgePda(creatorWallet, supporter) == <<"pledge", creatorWallet, supporter>>

Meta(address, signer, writable) == [address |-> address, signer |-> signer, writable |-> writable]
Readonly(address) == Meta(address, FALSE, FALSE)
Writable(address) == Meta(address, FALSE, TRUE)
ReadonlySigner(address) == Meta(address, TRUE, FALSE)
WritableSigner(address) == Meta(address, TRUE, TRUE)

Instruction(metas, data) == [program |-> "ccsupport", accounts |-> metas, data |-> data]

-----------------------------------------------------------------------------
(* The generated builders: accounts by position with their roles.  The     *)
(* asynchronous one derives the addresses that the caller leaves out and   *)
(* builds the same instruction.                                            *)

InitConfigAccounts(a) ==
  <<Writable(a.config), WritableSigner(a.authority), Readonly(a.mint), Readonly(a.systemProgram)>>
InitConfigInstruction(input) == Instruction(InitConfigAccounts(input), InitConfigData)
InitConfigAsync(input) ==
  InitConfigInstruction([config |-> FindConfigPda, authority |-> input.authority,
                         mint |-> input.mint, systemProgram |-> SystemProgram])

RegisterCreatorAccounts(a) ==
  <<WritableSigner(a.wallet), Writable(a.creator), Writable(a.handleAccount),
    Readonly(a.systemProgram)>>
RegisterCreatorInstruction(input) ==
  Instruction(RegisterCreatorAccounts(input), RegisterCreatorData(input))
RegisterCreatorAsync(input) ==
  RegisterCreatorInstruction([wallet |-> input.wallet, creator |-> FindCreatorPda(input.wallet),
                              handleAccount |-> input.handleAccount,
                              systemProgram |-> SystemProgram,
                              handle |-> input.handle, text |-> input.text])

UpdateCreatorAccounts(a) == <<ReadonlySigner(a.wallet), Writable(a.creator)>>
UpdateCreatorInstruction(input) ==
  Instruction(UpdateCreatorAccounts(input), UpdateCreatorData(input))
UpdateCreatorAsync(input) ==
  UpdateCreatorInstruction([wallet |-> input.wallet, creator |-> FindCreatorPda(input.wallet),
                            text |-> input.text, suggestedAmount |-> input.suggestedAmount])

MakePledgeAccounts(a) ==
  <<WritableSigner(a.supporter), Readonly(a.config), Writable(a.creator), Writable(a.pledge),
    Readonly(a.instructions), Readonly(a.systemProgram)>>
MakePledgeInstruction(input) == Instruction(MakePledgeAccounts(input), MakePledgeData(input))
MakePledgeAsync(input) ==
  MakePledgeInstruction([supporter |-> input.supporter, config |-> FindConfigPda,
                         creator |-> input.creator, pledge |-> input.pledge,
                         instructions |-> InstructionsSysvar, systemProgram |-> SystemProgram,
                         periods |-> input.periods, showPublicly |-> input.showPublicly])

SetVisibilityAccounts(a) == <<ReadonlySigner(a.supporter), Writable(a.pledge)>>
SetVisibilityInstruction(input) == Instruction(SetVisibilityAccounts(input), SetVisibilityData(input))

-----------------------------------------------------------------------------
(* What a caller may ask for, and the transactions that program.ts and     *)
(* buildContribution make of it.                                           *)

Asks ==
  [op : {"initConfig"}, wallet : Wallets, mint : Mints]
  \cup [op : {"registerCreator"}, wallet : Wallets, handle : Handles, text : Texts]
  \cup [op : {"updateCreator"}, wallet : Wallets, text : Texts, suggestedAmount : Amounts]
  \cup [op : {"contribute"}, supporter : Wallets, creatorWallet : Wallets, mint : Mints,
        periods : 0..MaxPeriods + 1, showPublicly : BOOLEAN]
  \cup [op : {"setVisibility"}, supporter : Wallets, creatorWallet : Wallets,
        showPublicly : BOOLEAN]

\* The token program's Transfer as buildContribution has it: three proof contexts, the
\* authority last.
TransferInstruction(supporter, creatorWallet, mint) ==
  [program |-> "token2022", data |-> <<27, 7>>,
   accounts |-> <<Writable(Ata(supporter, mint)), Readonly(mint), Writable(Ata(creatorWallet, mint)),
                  Readonly(<<"equality">>), Readonly(<<"validity">>), Readonly(<<"range">>),
                  ReadonlySigner(supporter)>>]

RegistrationInstruction(ask) ==
  RegisterCreatorAsync([wallet |-> ask.wallet, handleAccount |-> HandlePda(ask.handle),
                        handle |-> ask.handle, text |-> ask.text])

PledgeInstruction(ask) ==
  MakePledgeAsync([supporter |-> ask.supporter, creator |-> FindCreatorPda(ask.creatorWallet),
                   pledge |-> PledgePda(ask.creatorWallet, ask.supporter),
                   periods |-> ask.periods, showPublicly |-> ask.showPublicly])

\* The instructions of the transaction.
Built(ask) ==
  CASE ask.op = "initConfig" -> <<InitConfigAsync([authority |-> ask.wallet, mint |-> ask.mint])>>
    [] ask.op = "registerCreator" -> <<RegistrationInstruction(ask)>>
    [] ask.op = "updateCreator" -> <<UpdateCreatorAsync(ask)>>
    [] ask.op = "contribute" ->
         <<TransferInstruction(ask.supporter, ask.creatorWallet, ask.mint), PledgeInstruction(ask)>>
    [] ask.op = "setVisibility" ->
         <<SetVisibilityInstruction([supporter |-> ask.supporter,
                                     pledge |-> PledgePda(ask.creatorWallet, ask.supporter),
                                     showPublicly |-> ask.showPublicly])>>

\* What is refused before anything is built: a handle no address is derived for, periods
\* that the encoder would let through.
Refused(ask) ==
  \/ ask.op = "registerCreator" /\ ask.handle \notin ValidHandles
  \/ ask.op = "contribute" /\ ask.periods \notin 1..MaxPeriods

-----------------------------------------------------------------------------
(* The program's side: #[derive(Accounts)] of each handler, by position.   *)

IsSigner(meta) == meta.signer /\ meta.address \in Wallets
Payer(meta) == IsSigner(meta) /\ meta.writable
Seeded(meta, address) == meta.address = address
SeededMut(meta, address) == Seeded(meta, address) /\ meta.writable

RunsInitConfig(m) ==
  /\ Len(m) >= 4
  /\ SeededMut(m[1], <<"config">>) /\ Payer(m[2])
  /\ m[3].address \in Mints /\ Seeded(m[4], SystemProgram)
  /\ InitConfig(m[2].address, m[3].address)

RunsRegisterCreator(m, handle, text) ==
  /\ Len(m) >= 4
  /\ Payer(m[1])
  /\ SeededMut(m[2], <<"creator", m[1].address>>) /\ SeededMut(m[3], <<"handle", handle>>)
  /\ Seeded(m[4], SystemProgram)
  /\ RegisterCreator(m[1].address, handle, text)

RunsUpdateCreator(m, text, suggested_amount) ==
  /\ Len(m) >= 2
  /\ IsSigner(m[1]) /\ SeededMut(m[2], <<"creator", m[1].address>>)
  /\ UpdateCreator(m[1].address, text, suggested_amount)

\* The seeds of a pledge are checked against the creator that the account itself names.
RunsMakePledge(m, periods, show_publicly, transfers) ==
  /\ Len(m) >= 6
  /\ Payer(m[1]) /\ Seeded(m[2], <<"config">>)
  /\ Seeded(m[5], InstructionsSysvar) /\ Seeded(m[6], SystemProgram)
  /\ \E w \in Wallets :
       /\ SeededMut(m[3], <<"creator", w>>) /\ SeededMut(m[4], <<"pledge", w, m[1].address>>)
       /\ MakePledge(m[1].address, w, periods, show_publicly, transfers)

RunsSetVisibility(m, show_publicly) ==
  /\ Len(m) >= 2
  /\ IsSigner(m[1])
  /\ \E w \in Wallets : /\ SeededMut(m[2], <<"pledge", w, m[1].address>>)
                        /\ SetVisibility(m[1].address, w, show_publicly)

\* find_confidential_transfer: what it takes for a transfer, and where it finds its accounts.
IsConfidentialTransfer(ix) ==
  /\ ix.program = "token2022" /\ Len(ix.data) >= 2 /\ Len(ix.accounts) >= 4
  /\ ix.data[1] = 27 /\ ix.data[2] = 7
NoTransfer == [mint |-> NoAccount, source |-> NoAccount, destination |-> NoAccount,
               authority |-> NoAccount, signed |-> FALSE]
TransferSigner(m) == m[Len(m)]
TransfersOf(instructions) ==
  [i \in DOMAIN instructions |->
     IF IsConfidentialTransfer(instructions[i])
     THEN LET m == instructions[i].accounts
          IN  [mint |-> m[2].address, source |-> m[1].address, destination |-> m[3].address,
               authority |-> TransferSigner(m).address, signed |-> TransferSigner(m).signer]
     ELSE NoTransfer]

\* #[program]: the discriminator picks the handler, the arguments follow by position.
Dispatch(ix, transfers) ==
  \/ ix.data[1] = "init_config" /\ RunsInitConfig(ix.accounts)
  \/ ix.data[1] = "register_creator" /\ RunsRegisterCreator(ix.accounts, ix.data[2], ix.data[3])
  \/ ix.data[1] = "update_creator" /\ RunsUpdateCreator(ix.accounts, ix.data[2], ix.data[3])
  \/ ix.data[1] = "pledge" /\ RunsMakePledge(ix.accounts, ix.data[2], ix.data[3], transfers)
  \/ ix.data[1] = "set_visibility" /\ RunsSetVisibility(ix.accounts, ix.data[2])

\* A transaction of a client holds one instruction of the program.
Runs(instructions) ==
  \E i \in DOMAIN instructions :
    instructions[i].program = "ccsupport" /\ Dispatch(instructions[i], TransfersOf(instructions))

-----------------------------------------------------------------------------
(* The generated parsers, and what they make a transaction out to ask.     *)

ParseInitConfig(ix) ==
  [authority |-> ix.accounts[2].address, mint |-> ix.accounts[3].address]
ParseRegisterCreator(ix) ==
  [wallet |-> ix.accounts[1].address, handle |-> ix.data[2],
   text |-> ix.data[3]]
ParseUpdateCreator(ix) ==
  [wallet |-> ix.accounts[1].address, text |-> ix.data[2],
   suggestedAmount |-> ix.data[3]]
ParsePledgeSwapped(ix) ==   \* mutant: creator and pledge the other way round
  [supporter |-> ix.accounts[1].address, creator |-> ix.accounts[4].address,
   pledge |-> ix.accounts[3].address, periods |-> ix.data[2], showPublicly |-> ix.data[3]]
ParseMakePledge(ix) ==
  [supporter |-> ix.accounts[1].address, creator |-> ix.accounts[3].address,
   pledge |-> ix.accounts[4].address, periods |-> ix.data[2], showPublicly |-> ix.data[3]]
ParseSetVisibility(ix) ==
  [supporter |-> ix.accounts[1].address, pledge |-> ix.accounts[2].address,
   showPublicly |-> ix.data[2]]

\* identifyCcsupportInstruction picks the parser; e is the event of the instruction.
ParsesAs(ix, e) ==
  CASE IdentifyInstruction(ix.data) = "register_creator" ->
         LET p == ParseRegisterCreator(ix)
         IN  <<e.kind, e.wallet, e.handle, e.text>> = <<"creatorRegistered", p.wallet, p.handle, p.text>>
    [] IdentifyInstruction(ix.data) = "update_creator" ->
         LET p == ParseUpdateCreator(ix)
         IN  /\ <<e.kind, e.wallet, e.text>> = <<"creatorUpdated", p.wallet, p.text>>
             /\ e.suggested_amount = p.suggestedAmount
    [] IdentifyInstruction(ix.data) = "pledge" ->
         LET p == ParseMakePledge(ix)
         IN  /\ <<e.kind, e.supporter, e.periods>> = <<"pledged", p.supporter, p.periods>>
             /\ p.creator = FindCreatorPda(e.creator)
             /\ p.pledge = PledgePda(e.creator, e.supporter)
             /\ e.show_publicly = p.showPublicly
    [] IdentifyInstruction(ix.data) = "set_visibility" ->
         LET p == ParseSetVisibility(ix)
         IN  /\ <<e.kind, e.supporter>> = <<"visibilityChanged", p.supporter>>
             /\ p.pledge = PledgePda(e.creator, e.supporter)
             /\ e.show_publicly = p.showPublicly
    [] OTHER -> LET p == ParseInitConfig(ix)
                IN  e = NoEvent /\ config' = [mint |-> p.mint, authority |-> p.authority]

-----------------------------------------------------------------------------
(* What the client reads of the chain.                                     *)

\* The accounts of the chain by address; no bytes where there is none.
AccountAt(address) ==
  CASE address = FindConfigPda -> IF config = NoAccount THEN <<>> ELSE ConfigBytes(config)
    [] address[1] = "creator" ->
         IF Registered(address[2]) THEN CreatorBytes(address[2], creators[address[2]]) ELSE <<>>
    [] address[1] = "handle" ->
         IF handles[address[2]] = NoAccount THEN <<>>
         ELSE HandleBytes(<<"creator", handles[address[2]]>>)
    [] address[1] = "pledge" ->
         IF Pledged(<<address[2], address[3]>>)
         THEN PledgeBytes(address[2], address[3], pledges[<<address[2], address[3]>>]) ELSE <<>>

\* What stands for no account is not the object that one is decoded to.
ASSUME ClientAssumption ==
  /\ NoAccount \notin [wallet : Wallets, handle : Handles, text : Texts, suggestedAmount : Amounts,
                       pledgesTotal : Nat, createdAt : Nat]
  /\ NoAccount \notin [creator : Wallets, supporter : Wallets, startedAt : Nat, expiresAt : Nat,
                       periodsTotal : Nat, contributions : Nat, showPublicly : BOOLEAN,
                       lastSlot : Nat]

\* fetchMaybe...: an account that does not exist is no error.
FetchMaybeConfig == IF AccountAt(FindConfigPda) = <<>> THEN NoAccount ELSE DecodeConfig(AccountAt(FindConfigPda))
FetchMaybeCreator(address) ==
  IF AccountAt(address) = <<>> THEN NoAccount ELSE DecodeCreator(AccountAt(address))
FetchMaybeHandle(address) ==
  IF AccountAt(address) = <<>> THEN NoAccount ELSE DecodeHandle(AccountAt(address))
FetchMaybePledge(address) ==
  IF AccountAt(address) = <<>> THEN NoAccount ELSE DecodePledge(AccountAt(address))

\* readVisibility: the flags of a supporter's pledges, by creator.
ReadVisibility(supporter, creatorWallets) ==
  [w \in creatorWallets |->
     LET pledge == FetchMaybePledge(PledgePda(w, supporter))
     IN  IF pledge = NoAccount THEN NoAccount ELSE pledge.showPublicly]

\* The Register screen: the form to edit a profile, or the one to register.
WithAccount(wallet) ==
  LET onChain == FetchMaybeCreator(FindCreatorPda(wallet))
  IN  IF onChain = NoAccount THEN [form |-> "register"]
      ELSE [form |-> "edit", handle |-> onChain.handle, text |-> onChain.text,
            suggested |-> onChain.suggestedAmount]

\* The renewal form: what the program will extend.
RenewalForm(creatorWallet, supporter) ==
  LET maybe == FetchMaybePledge(PledgePda(creatorWallet, supporter))
  IN  IF maybe = NoAccount THEN NoAccount
      ELSE [expiresAt |-> maybe.expiresAt, showPublicly |-> maybe.showPublicly]

-----------------------------------------------------------------------------
\* What the caller asks, as the instruction that the program's own interface has for it.
Asked(ask) ==
  CASE ask.op = "initConfig" -> InitConfig(ask.wallet, ask.mint)
    [] ask.op = "registerCreator" -> RegisterCreator(ask.wallet, ask.handle, ask.text)
    [] ask.op = "updateCreator" -> UpdateCreator(ask.wallet, ask.text, ask.suggestedAmount)
    [] ask.op = "contribute" ->
         MakePledge(ask.supporter, ask.creatorWallet, ask.periods, ask.showPublicly,
                    <<[mint |-> ask.mint, source |-> Ata(ask.supporter, ask.mint),
                       destination |-> Ata(ask.creatorWallet, ask.mint),
                       authority |-> ask.supporter, signed |-> TRUE]>>)
    [] ask.op = "setVisibility" -> SetVisibility(ask.supporter, ask.creatorWallet, ask.showPublicly)

\* builders.test.ts and introspect.rs, of every ask in every state of the program: what a
\* client builds is accepted exactly when the ask is allowed, does what was asked to the
\* accounts of those who were meant, and its parser tells what the program's event tells;
\* what it refuses to build would have been refused.  (Steps that leave the program alone say
\* nothing here; naming them spares TLC the asks.)
SpeaksForItsCaller ==
  [][vars' # vars => \A ask \in Asks :
       LET built == Built(ask)
       IN  /\ Asked(ask) <=> ~Refused(ask) /\ Runs(built)
           /\ Asked(ask) => ParsesAs(built[Len(built)], event')]_vars

\* Support.tsx:111-112, visibility.ts:6-7: what the screens read of the chain at the addresses
\* they derive is what the program will overwrite next: the profile to edit, the term and
\* the flag to renew, the flags to toggle; and an account is of the kind it is read as.
ReadsAreTrue ==
  /\ \A w \in Wallets :
       LET page == WithAccount(w)
       IN  /\ page.form = "edit" <=> Registered(w)
           /\ Registered(w) =>
                /\ page.handle = creators[w].handle /\ page.text = creators[w].text
                /\ page.suggested = creators[w].suggested_amount
                /\ FetchMaybeHandle(HandlePda(page.handle)).creator = FindCreatorPda(w)
                /\ IdentifyAccount(AccountAt(FindCreatorPda(w))) = "Creator"
           /\ \A s \in Wallets :
                LET form == RenewalForm(w, s)
                    pledge == pledges[<<w, s>>]
                IN  IF Pledged(<<w, s>>)
                    THEN /\ form = [expiresAt |-> pledge.expires_at,
                                    showPublicly |-> pledge.show_publicly]
                         /\ ReadVisibility(s, {w})[w] = pledge.show_publicly
                         /\ IdentifyAccount(AccountAt(PledgePda(w, s))) = "Pledge"
                    ELSE form = NoAccount /\ ReadVisibility(s, {w})[w] = NoAccount
  /\ FetchMaybeConfig = config
=============================================================================
