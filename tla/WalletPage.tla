------------------------------ MODULE WalletPage -------------------------------
(* The wallet page of the web app, web/app/(app)/wallet/page.tsx, in one tab,  *)
(* with web/lib/keystore.ts and web/lib/chain.ts, the API's reads and the      *)
(* founder's CLI.  Other tabs share localStorage with this one and nothing     *)
(* else (no tab listens to it): to this tab they are saves, wipes and edits    *)
(* at any time.  A link of the app's header takes the page off the screen and  *)
(* back on, and a tap that was running goes on without it.  A wallet stands    *)
(* for its key and its address.                                                *)
EXTENDS Naturals, Sequences

CONSTANTS
  Created,      \* the wallets createWallet() may generate, each once
  Known,        \* the wallets whose secret the customer can import
  Foreign,      \* other people's addresses
  Bad,          \* inputs that are no address
  Pasted,       \* the wallets whose own address gets typed
  Passphrases,
  Short,        \* those of less than eight characters
  None,
  Slots,        \* bound: taps left running by a navigation
  MaxSends,     \* bound: transfers
  MaxFaults     \* bound: writes of other tabs, and writes localStorage refuses

Wallets == Created \cup Known

(* Anything can be typed, also the address of a wallet of one's own.  It is   *)
(* the same address; that it was typed is noted for the properties, wherever  *)
(* it goes, so a bare wallet is an address that save() has put there.         *)
Typed     == Foreign \cup Bad \cup {None} \cup [typed : Pasted]
Addresses == Wallets \cup Typed

ASSUME WalletAssumption ==
  /\ None \notin Wallets \cup Foreign \cup Bad
  /\ Wallets \cap (Foreign \cup Bad) = {}
  /\ Pasted \subseteq Wallets
  /\ Wallets \cap [typed : Pasted] = {}  \* the note makes a difference
  /\ MaxSends \in Nat /\ MaxFaults \in Nat

VARIABLES
  localStorage, \* [address, keystore]
  page,         \* the component's state
  op,           \* what run() is running, with what its closure captured
  left,         \* the taps left running
  generated,    \* the wallets generated so far
  transfers,    \* the chain: [from, mined]
  late,         \* for the properties: what of the page a tap has set too late
  behind,       \* for the properties: the storage was written behind this page
  faults, elsewhere

chain == <<generated, transfers>>
notes == <<late, behind, faults, elsewhere>>
vars  == <<localStorage, page, op, left, chain, notes>>

------------------------------------------------------------------------------
(* Keystores: pbkdf2 from the browser, scrypt from Node.                      *)

Keystore == [kdf : {"pbkdf2", "scrypt"}, wallet : Wallets, passphrase : Passphrases]

ASSUME KeystoreAssumption == None \notin Keystore

PageFile(w, p) == [kdf |-> "pbkdf2", wallet |-> w, passphrase |-> p]
NodeFile(w, p) == [kdf |-> "scrypt", wallet |-> w, passphrase |-> p]

(* decryptPrivateKey(): None where it throws.                                 *)
PageOpens(ks, p) == IF ks.kdf = "pbkdf2" /\ ks.passphrase = p THEN ks.wallet ELSE None

(* Slip: a CLI that reads what it writes.                                     *)
NodeOpensOwn(ks, p) == IF ks.kdf = "scrypt" /\ ks.passphrase = p THEN ks.wallet ELSE None

NodeOpens(ks, p) == IF ks.kdf \in {"scrypt", "pbkdf2"} /\ ks.passphrase = p THEN ks.wallet ELSE None

Empty == [address |-> None, keystore |-> None]

(* The page when it is loaded.                                                *)
Loaded(store) ==
  [address |-> store.address, hasKeystore |-> store.keystore # None, key |-> None,
   sendResult |-> 0, balance |-> None, receive |-> None, armWipe |-> FALSE]

Idle == [kind |-> "-", of |-> None, passphrase |-> None, transfer |-> 0, late |-> FALSE]

Init ==
  /\ localStorage = Empty /\ page = Loaded(Empty) /\ op = Idle /\ left = [s \in Slots |-> Idle]
  /\ generated = {} /\ transfers = <<>>
  /\ late = {} /\ behind = FALSE /\ faults = 0 /\ elsewhere = 0

------------------------------------------------------------------------------
(* Taps.  run() is busy until the tap ends; Kunci, Hapus and the fields are   *)
(* not disabled meanwhile.                                                    *)

At(kind) == op.kind = kind
Free == At("-")
Runs(kind, of, p) == op' = [Idle EXCEPT !.kind = kind, !.of = of, !.passphrase = p]
Ends == op' = Idle

(* A full or blocked localStorage throws.                                     *)
Fault == faults + elsewhere < MaxFaults /\ faults' = faults + 1

(* What a tap sets is late if the wallet was wiped while it ran, or if it was *)
(* run with a key that came so.                                               *)
Sets(field) == late' = IF op.late THEN late \cup {field} ELSE late \ {field}

(* What each section of the page asks for.                                    *)
CanMake   == Free /\ ~ page.hasKeystore
CanUnlock == Free /\ page.hasKeystore /\ page.key = None
CanLock   == page.hasKeystore /\ page.key # None
CanSend   == Free /\ page.key # None
CanCheck  == Free /\ page.address # None

Fresh == Created \ generated

Create ==
  /\ CanMake
  /\ \E w \in Fresh, p \in Passphrases \ Short :
       Runs("save", w, p) /\ generated' = generated \cup {w}
  /\ UNCHANGED <<localStorage, page, left, transfers, notes>>

Import ==
  /\ CanMake
  /\ \E w \in Known, p \in Passphrases \ Short : Runs("save", w, p)
  /\ UNCHANGED <<localStorage, page, left, chain, notes>>

(* save(): the address first, then the keystore; either write may throw.      *)
Stores(tap) ==
  /\ localStorage' = [address |-> tap.of, keystore |-> PageFile(tap.of, tap.passphrase)]
  /\ UNCHANGED faults

StoresHalf(tap) ==
  Fault /\ localStorage' \in {localStorage, [localStorage EXCEPT !.address = tap.of]}

(* Slip: the page is not told that it has a keystore.                         *)
SaveUntold ==
  /\ At("save") /\ Ends
  /\ Stores(op) /\ page' = [page EXCEPT !.address = op.of]
  /\ UNCHANGED <<left, chain, late, behind, elsewhere>>

Save ==
  /\ At("save") /\ Ends
  /\ \/ Stores(op) /\ page' = [page EXCEPT !.address = op.of, !.hasKeystore = TRUE]
     \/ StoresHalf(op) /\ UNCHANGED page
  /\ UNCHANGED <<left, chain, late, behind, elsewhere>>

Unlock ==
  /\ CanUnlock /\ localStorage.keystore # None
  /\ \E p \in Passphrases : Runs("unlock", localStorage.keystore, p)
  /\ UNCHANGED <<localStorage, page, left, chain, notes>>

Unlocked ==
  LET key == PageOpens(op.of, op.passphrase) IN
  /\ At("unlock") /\ Ends
  /\ IF key = None THEN UNCHANGED <<page, late>>
     ELSE page' = [page EXCEPT !.key = key] /\ Sets("key")
  /\ UNCHANGED <<localStorage, left, chain, behind, faults, elsewhere>>

(* Slip: locking leaves the result of the last transfer.                      *)
LockKey ==
  /\ CanLock
  /\ page' = [page EXCEPT !.key = None]
  /\ late' = late \ {"key", "sendResult"}
  /\ UNCHANGED <<localStorage, op, left, chain, behind, faults, elsewhere>>

Lock ==
  /\ CanLock
  /\ page' = [page EXCEPT !.key = None, !.sendResult = 0]
  /\ late' = late \ {"key", "sendResult"}
  /\ UNCHANGED <<localStorage, op, left, chain, behind, faults, elsewhere>>

ArmWipe ==
  /\ page.hasKeystore /\ ~ page.armWipe
  /\ page' = [page EXCEPT !.armWipe = TRUE]
  /\ UNCHANGED <<localStorage, op, left, chain, notes>>

(* Slip: the key outlives the keystore on the page.                           *)
WipedPageKeepsKey ==
  [page EXCEPT !.address = None, !.hasKeystore = FALSE,
               !.balance = None, !.receive = None, !.armWipe = FALSE]

Removed == Empty
WipedPage ==
  [page EXCEPT !.address = None, !.hasKeystore = FALSE, !.key = None,
               !.balance = None, !.receive = None, !.armWipe = FALSE]

(* The second tap, the keystore first; the page is reset even if the storage  *)
(* cannot be.                                                                 *)
Wipe ==
  /\ page.hasKeystore /\ page.armWipe
  /\ \/ localStorage' = Removed /\ UNCHANGED faults
     \/ localStorage' \in {localStorage, [localStorage EXCEPT !.keystore = None]} /\ Fault
  /\ page' = WipedPage
  /\ op' = [op EXCEPT !.late = ~ Free]
  /\ late' = IF page.sendResult # 0 THEN {"sendResult"} ELSE {}
  /\ UNCHANGED <<left, chain, behind, elsewhere>>

(* The address field is written to the storage as it is typed; the address of *)
(* a wallet that there is not yet is in nobody's hands.                       *)
Typeable == Typed \ [typed : Pasted \cap Fresh]

Edit ==
  /\ \E a \in Typeable :
       /\ page' = [page EXCEPT !.address = a]
       /\ \/ localStorage' = [localStorage EXCEPT !.address = a] /\ UNCHANGED faults
          \/ UNCHANGED localStorage /\ Fault
  /\ UNCHANGED <<op, left, chain, late, behind, elsewhere>>

(* onSend() with a valid amount and address; it keeps the key it was tapped   *)
(* with.                                                                      *)
Send ==
  /\ CanSend
  /\ op' = [Idle EXCEPT !.kind = "send", !.of = page.key, !.late = "key" \in late]
  /\ UNCHANGED <<localStorage, page, left, chain, notes>>

Transfer(w) == Append(transfers, [from |-> w, mined |-> FALSE])

(* The transfer is sent or not, and if it is, its hash may not come back.     *)
Broadcast ==
  /\ At("send")
  /\ \/ /\ Len(transfers) < MaxSends /\ transfers' = Transfer(op.of)
        /\ \/ op' = [op EXCEPT !.kind = "receipt", !.transfer = Len(transfers) + 1]
           \/ Ends
     \/ Ends /\ UNCHANGED transfers
  /\ UNCHANGED <<localStorage, page, left, generated, notes>>

(* Whether the transfer succeeded is not looked at; the wait may time out.    *)
Receipt ==
  /\ At("receipt") /\ Ends
  /\ \/ /\ transfers[op.transfer].mined
        /\ page' = [page EXCEPT !.sendResult = op.transfer] /\ Sets("sendResult")
     \/ UNCHANGED <<page, late>>
  /\ UNCHANGED <<localStorage, left, chain, behind, faults, elsewhere>>

Check ==
  /\ CanCheck /\ Runs("check", page.address, None)
  /\ UNCHANGED <<localStorage, page, left, chain, notes>>

(* checkedAddress() *)
Checked(a) == a \in Wallets \cup Foreign \cup [typed : Pasted]

(* GET /wallet/balance: refused without an address, or the chain's answer.    *)
CheckBalance ==
  /\ At("check")
  /\ \/ /\ Checked(op.of) /\ page' = [page EXCEPT !.balance = op.of]
        /\ op' = [op EXCEPT !.kind = "receive"]
     \/ Ends /\ UNCHANGED page
  /\ UNCHANGED <<localStorage, left, chain, notes>>

(* Slip: the field is read once more, after the balance.                      *)
CheckReceiveField ==
  /\ At("receive") /\ Ends
  /\ page' = [page EXCEPT !.receive = page.address] /\ Sets("receive")
  /\ UNCHANGED <<localStorage, left, chain, behind, faults, elsewhere>>

(* GET /wallet/receive; lost, the balance stands alone.                       *)
CheckReceive ==
  /\ At("receive") /\ Ends
  /\ \/ page' = [page EXCEPT !.receive = op.of]
        /\ late' = IF op.late THEN {"receive"} \cup late ELSE late \ {"receive", "balance"}
     \/ UNCHANGED page /\ late' = late \cup {"balance"}
  /\ UNCHANGED <<localStorage, left, chain, behind, faults, elsewhere>>

------------------------------------------------------------------------------
(* Reloads and navigations.                                                   *)

Loads ==
  /\ page' = Loaded(localStorage) /\ Ends /\ late' = {} /\ behind' = FALSE
  /\ UNCHANGED <<localStorage, chain, faults, elsewhere>>

(* A reload ends whatever was running.                                        *)
Reload == Loads /\ left' = [s \in Slots |-> Idle]

(* A link away and back: the page starts anew, and what the old one was       *)
(* running goes on.  Of that only a save and a transfer yet to be sent reach  *)
(* beyond the old page.                                                       *)
Navigate ==
  /\ Loads
  /\ IF op.kind \in {"save", "send"}
       THEN \E s \in Slots : left[s] = Idle /\ left' = [left EXCEPT ![s] = op]
       ELSE UNCHANGED left

LeftAt(s, kind) == left[s].kind = kind
LeftEnds(s)     == left' = [left EXCEPT ![s] = Idle]

LeftSave(s) ==
  /\ LeftAt(s, "save") /\ LeftEnds(s)
  /\ Stores(left[s]) \/ StoresHalf(left[s])
  /\ behind' = TRUE
  /\ UNCHANGED <<page, op, chain, late, elsewhere>>

LeftBroadcast(s) ==
  /\ LeftAt(s, "send") /\ LeftEnds(s)
  /\ \/ Len(transfers) < MaxSends /\ transfers' = Transfer(left[s].of)
     \/ UNCHANGED transfers
  /\ UNCHANGED <<localStorage, page, op, generated, notes>>

------------------------------------------------------------------------------
(* Other tabs, the chain and the CLI.                                         *)

(* A tab loaded before there was a keystore still saves one; one loaded since *)
(* still wipes.                                                               *)
Elsewhere ==
  /\ faults + elsewhere < MaxFaults /\ elsewhere' = elsewhere + 1
  /\ \/ \E w \in Known \cup Fresh, p \in Passphrases \ Short :
          /\ localStorage' = [address |-> w, keystore |-> PageFile(w, p)]
          /\ generated' = generated \cup ({w} \cap Created)
     \/ \E a \in Typeable : localStorage' = [localStorage EXCEPT !.address = a] /\ UNCHANGED generated
     \/ localStorage.keystore # None /\ localStorage' = Removed /\ UNCHANGED generated
  /\ behind' = TRUE
  /\ UNCHANGED <<page, op, left, transfers, late, faults>>

Mine ==
  /\ \E i \in DOMAIN transfers :
       ~ transfers[i].mined /\ transfers' = [transfers EXCEPT ![i].mined = TRUE]
  /\ UNCHANGED <<localStorage, page, op, left, generated, notes>>

(* The founder's keystore files: each wallet's that there is may have been    *)
(* made by the CLI, and the browser's be carried over.                        *)
Files ==
  {NodeFile(w, p) : w \in Known \cup generated, p \in Passphrases \ Short}
    \cup ({localStorage.keystore} \ {None})

CliGenerate ==
  /\ \E w \in Fresh : generated' = generated \cup {w}
  /\ UNCHANGED <<localStorage, page, op, left, transfers, notes>>

CliSend ==
  /\ Len(transfers) < MaxSends
  /\ \E ks \in Files, p \in Passphrases :
       NodeOpens(ks, p) # None /\ transfers' = Transfer(NodeOpens(ks, p))
  /\ UNCHANGED <<localStorage, page, op, left, generated, notes>>

Next ==
  \/ Create \/ Import \/ Save \/ Unlock \/ Unlocked \/ Lock \/ ArmWipe \/ Wipe \/ Edit
  \/ Send \/ Broadcast \/ Receipt \/ Check \/ CheckBalance \/ CheckReceive
  \/ Reload \/ Navigate \/ (\E s \in Slots : LeftSave(s) \/ LeftBroadcast(s))
  \/ Elsewhere \/ Mine \/ CliGenerate \/ CliSend

Spec == Init /\ [][Next]_vars

------------------------------------------------------------------------------
(* Properties.                                                                *)

Kinds == {"-", "save", "unlock", "send", "receipt", "check", "receive"}
Op    == [kind : Kinds, of : Addresses \cup Keystore, passphrase : Passphrases \cup {None},
          transfer : Nat, late : BOOLEAN]

(* Types: what the storage, the page and the taps hold.                       *)
TypeOK ==
  /\ localStorage \in [address : Addresses, keystore : Keystore \cup {None}]
  /\ page \in [address : Addresses, hasKeystore : BOOLEAN, key : Wallets \cup {None},
               sendResult : Nat, balance : Addresses, receive : Addresses, armWipe : BOOLEAN]
  /\ op \in Op /\ left \in [Slots -> Op]
  /\ generated \subseteq Created /\ transfers \in Seq([from : Wallets, mined : BOOLEAN])
  /\ late \subseteq {"key", "sendResult", "receive", "balance"}
  /\ behind \in BOOLEAN /\ faults \in Nat /\ elsewhere \in Nat

(* The address that save() has stored can be spent from: the keystore beside  *)
(* it opens to it, in the browser and in the CLI, whatever other tabs and     *)
(* taps left running write, unless a full or blocked storage has taken only   *)
(* one of the two (save(), onWipe()).  It says nothing of an address typed    *)
(* over it (page.tsx:277-287), which may be anybody's.                        *)
AddressSpendable ==
  LET ks == localStorage.keystore IN
  localStorage.address \in Wallets /\ faults = 0 =>
    /\ ks # None
    /\ PageOpens(ks, ks.passphrase) = localStorage.address
    /\ NodeOpens(ks, ks.passphrase) = localStorage.address

(* "Kirim" signs with the key of the keystore on this device.  The exceptions *)
(* are an unlock overtaken by the wipe, whose key outlives the keystore, and  *)
(* what another tab or a tap left running has stored since the page started.  *)
SignsForKeystore ==
  page.key # None /\ "key" \notin late /\ ~ behind =>
    page.hasKeystore /\ localStorage.keystore # None /\ localStorage.keystore.wallet = page.key

(* "Terkirim" shows a transfer that is on the chain and was sent by the       *)
(* wallet on the page, unless the wipe has left an older wallet's there.      *)
ShownTransferOfKey ==
  page.sendResult # 0 /\ page.key # None =>
    /\ transfers[page.sendResult].mined
    /\ "sendResult" \in late \/ behind \/ transfers[page.sendResult].from = page.key

(* The balance and the code under "Terima" are of one address, whatever is    *)
(* typed between the two calls, unless the second has not answered; and the   *)
(* code of an address that was not typed is never that of a wallet whose      *)
(* keystore is gone, unless the check was overtaken by the wipe.              *)
ChecksOneWallet ==
  /\ page.balance # None /\ page.receive # None /\ page.balance # page.receive =>
       At("receive") \/ "balance" \in late
  /\ page.receive \in Wallets /\ "receive" \notin late /\ faults = 0 /\ ~ behind =>
       localStorage.keystore # None /\ localStorage.keystore.wallet = page.receive

(* No keystore is ever written over by a page that knows of what was stored   *)
(* since it started, while the storage refuses nothing: it goes only by the   *)
(* wipe, and with it goes the address.  Two pages that do not know of each    *)
(* other's keystores may write over them: two tabs, or one tab after a        *)
(* navigation that left a save running.                                       *)
KeystoreKept ==
  [][localStorage.keystore # None /\ localStorage'.keystore # localStorage.keystore =>
       localStorage' = Empty \/ behind' \/ faults' > 0]_localStorage

------------------------------------------------------------------------------
(* The inductive invariant.                                                   *)

Alone == ~ behind
Holds(w) == localStorage.keystore # None /\ localStorage.keystore.wallet = w

(* What each tap has captured.                                                *)
Captured ==
  /\ At("save") => op.of \in Wallets /\ op.passphrase \in Passphrases
  /\ At("unlock") => op.of \in Keystore
  /\ At("check") \/ At("receive") => op.of \in Addresses
  /\ At("send") \/ At("receipt") => op.of \in Wallets /\ page.key \in {None, op.of}
  /\ At("receipt") => op.transfer \in DOMAIN transfers /\ transfers[op.transfer].from = op.of
  /\ At("receive") => page.balance \in {None, op.of}

(* So have those that were left.                                              *)
LeftCaptured ==
  \A s \in Slots :
    /\ left[s].kind \in {"-", "save", "send"}
    /\ left[s].kind # "-" => left[s].of \in Wallets
    /\ left[s].kind = "save" => left[s].passphrase \in Passphrases

(* A page behind which nothing was stored, by a storage that takes every      *)
(* write, knows if there is a keystore, and shows its address or one that was *)
(* typed.                                                                     *)
KnowsKeystore ==
  Alone /\ faults = 0 =>
    /\ page.hasKeystore <=> localStorage.keystore # None
    /\ page.address \in Wallets => Holds(page.address)

(* A wallet is saved only by a page without one.                              *)
SavesFirst == At("save") => ~ page.hasKeystore

(* A tap that no wipe has overtaken still has the keystore it was made with.  *)
NotOvertaken ==
  Alone /\ ~ op.late =>
    /\ At("unlock") => page.hasKeystore /\ localStorage.keystore = op.of
    /\ At("send") \/ At("receipt") => page.hasKeystore /\ Holds(op.of) /\ "key" \notin late
    /\ (At("check") \/ At("receive")) /\ op.of \in Wallets /\ faults = 0 => Holds(op.of)

(* A result shown is of a mined transfer and, unless the wipe has left it, of *)
(* the wallet in the keystore; one that is left marks itself, whether its key *)
(* or the wipe was late.                                                      *)
ResultStands ==
  page.sendResult # 0 =>
    /\ page.sendResult \in DOMAIN transfers /\ transfers[page.sendResult].mined
    /\ "sendResult" \notin late /\ Alone =>
         page.hasKeystore /\ Holds(transfers[page.sendResult].from) /\ "key" \notin late
    /\ At("unlock") /\ op.late => "sendResult" \in late

WalletInv ==
  /\ TypeOK /\ Captured /\ LeftCaptured /\ KnowsKeystore /\ SavesFirst /\ NotOvertaken
  /\ ResultStands /\ AddressSpendable /\ SignsForKeystore /\ ChecksOneWallet
==============================================================================
