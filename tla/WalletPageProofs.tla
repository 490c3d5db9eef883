--------------------------- MODULE WalletPageProofs ----------------------------
(* WalletInv is an inductive invariant of the wallet page, for any wallets,   *)
(* passphrases, transfers and faults.                                         *)
EXTENDS WalletPage, SequenceTheorems, TLAPS

USE DEF At, Free, Alone, Holds, Ends, chain, notes, LeftAt, LeftEnds

Store == [address : Addresses, keystore : Keystore \cup {None}]
Page  == [address : Addresses, hasKeystore : BOOLEAN, key : Wallets \cup {None},
          sendResult : Nat, balance : Addresses, receive : Addresses, armWipe : BOOLEAN]
Sent  == [from : Wallets, mined : BOOLEAN]

LEMMA Names ==
  /\ None \in Addresses /\ None \notin Wallets /\ Wallets \subseteq Addresses
  /\ Typed \subseteq Addresses /\ Wallets \cap Typed = {}
  /\ Created \subseteq Wallets /\ Known \subseteq Wallets /\ Fresh \subseteq Created
<1>1. Wallets \cap Typed = {} BY WalletAssumption DEF Typed
<1> QED BY <1>1 DEF Addresses, Typed, Wallets, Fresh

LEMMA IdleType == Idle \in Op /\ Idle.kind = "-" /\ ~ Idle.late
BY Names DEF Idle, Op, Kinds

(* What run() is given.                                                       *)
LEMMA RunsOp ==
  ASSUME NEW kind \in Kinds, NEW of \in Addresses \cup Keystore,
         NEW p \in Passphrases \cup {None}, Runs(kind, of, p)
  PROVE  op' = [kind |-> kind, of |-> of, passphrase |-> p, transfer |-> 0, late |-> FALSE]
BY DEF Runs, Idle

(* The chain grows, and forgets no transfer.                                  *)
ChainGrows ==
  /\ DOMAIN transfers \subseteq DOMAIN transfers'
  /\ \A i \in DOMAIN transfers :
       transfers'[i].from = transfers[i].from /\ (transfers[i].mined => transfers'[i].mined)

(* What page and storage show does not depend on the tap that runs, unless it *)
(* is the check's.                                                            *)
LEMMA OpStep ==
  ASSUME WalletInv, UNCHANGED <<localStorage, page, notes>>,
         op' \in Op, left' \in [Slots -> Op], generated' \subseteq Created,
         transfers' \in Seq(Sent), ChainGrows,
         Captured', LeftCaptured', SavesFirst', NotOvertaken',
         (At("unlock") /\ op.late => page.sendResult = 0 \/ "sendResult" \in late)',
         At("receive") => At("receive")'
  PROVE  WalletInv'
<1> USE DEF WalletInv
<1>1. TypeOK' BY DEF TypeOK, Sent
<1>2. KnowsKeystore' BY DEF KnowsKeystore
<1>3. ResultStands' BY DEF ResultStands, ChainGrows
<1>4. AddressSpendable' BY DEF AddressSpendable, PageOpens, NodeOpens
<1>5. SignsForKeystore' BY DEF SignsForKeystore
<1>6. ChecksOneWallet' BY DEF ChecksOneWallet
<1> QED BY <1>1, <1>2, <1>3, <1>4, <1>5, <1>6

(* A tap on a button.                                                         *)
LEMMA TapStep ==
  ASSUME WalletInv, UNCHANGED <<localStorage, page, left, notes, transfers>>,
         Free, op' \in Op, ~ op'.late \/ op'.kind # "unlock", generated' \subseteq Created,
         Captured', SavesFirst', NotOvertaken'
  PROVE  WalletInv'
<1>1. /\ transfers' \in Seq(Sent) /\ left' \in [Slots -> Op] /\ LeftCaptured'
      /\ ~ At("receive") /\ ChainGrows
  BY DEF WalletInv, TypeOK, Sent, ChainGrows, LeftCaptured
<1> QED BY <1>1, OpStep

LEMMA MakeStep ==
  ASSUME WalletInv, Create \/ Import
  PROVE  WalletInv'
<1>1. PICK w \in Wallets, p \in Passphrases : Runs("save", w, p)
  BY Names DEF Create, Import
<1>2. /\ UNCHANGED <<localStorage, page, left, notes, transfers>>
      /\ Free /\ ~ page.hasKeystore
  BY DEF Create, Import, CanMake
<1>3. op' = [kind |-> "save", of |-> w, passphrase |-> p, transfer |-> 0, late |-> FALSE]
  BY <1>1, Names, RunsOp DEF Kinds
<1>4. generated' \subseteq Created BY Names DEF Create, Import, WalletInv, TypeOK
<1>5. op' \in Op BY <1>3, Names DEF Op, Kinds
<1>6. Captured' /\ SavesFirst' /\ NotOvertaken'
  BY <1>2, <1>3 DEF Captured, SavesFirst, NotOvertaken
<1> QED BY <1>2, <1>3, <1>4, <1>5, <1>6, TapStep

LEMMA UnlockStep ==
  ASSUME WalletInv, Unlock
  PROVE  WalletInv'
<1> USE DEF Unlock, CanUnlock
<1>1. PICK p \in Passphrases : Runs("unlock", localStorage.keystore, p) OBVIOUS
<1>2. localStorage.keystore \in Keystore /\ generated' \subseteq Created
  BY DEF WalletInv, TypeOK
<1>3. op' = [kind |-> "unlock", of |-> localStorage.keystore, passphrase |-> p,
             transfer |-> 0, late |-> FALSE]
  BY <1>1, <1>2, RunsOp DEF Kinds
<1>4. op' \in Op BY <1>2, <1>3 DEF Op, Kinds
<1>5. Captured' /\ SavesFirst' /\ NotOvertaken'
  BY <1>2, <1>3 DEF Captured, SavesFirst, NotOvertaken
<1> QED BY <1>2, <1>3, <1>4, <1>5, TapStep

LEMMA SendStep ==
  ASSUME WalletInv, Send
  PROVE  WalletInv'
<1>1. /\ page.key \in Wallets /\ generated' \subseteq Created /\ Free
      /\ UNCHANGED <<localStorage, page, left, notes, transfers>>
  BY DEF Send, CanSend, WalletInv, TypeOK
<1>2. op' = [kind |-> "send", of |-> page.key, passphrase |-> None, transfer |-> 0,
             late |-> "key" \in late]
  BY DEF Send, Idle
<1>3. op' \in Op
  <2>1. CASE "key" \in late
    <3>1. ("key" \in late) = TRUE BY <2>1
    <3>2. op' = [kind |-> "send", of |-> page.key, passphrase |-> None, transfer |-> 0,
                 late |-> TRUE]
      BY <1>2, <3>1, Zenon
    <3> QED BY <1>1, <3>2, Names DEF Op, Kinds
  <2>2. CASE "key" \notin late
    <3>1. ("key" \in late) = FALSE BY <2>2
    <3>2. op' = [kind |-> "send", of |-> page.key, passphrase |-> None, transfer |-> 0,
                 late |-> FALSE]
      BY <1>2, <3>1, Zenon
    <3> QED BY <1>1, <3>2, Names DEF Op, Kinds
  <2> QED BY <2>1, <2>2
<1>4. Captured' /\ SavesFirst' BY <1>1, <1>2 DEF Captured, SavesFirst
<1>5. NotOvertaken' BY <1>1, <1>2, Names DEF NotOvertaken, WalletInv, SignsForKeystore
<1> QED BY <1>1, <1>2, <1>3, <1>4, <1>5, TapStep

LEMMA CheckStep ==
  ASSUME WalletInv, Check
  PROVE  WalletInv'
<1> USE DEF Check, CanCheck
<1>1. page.address \in Addresses /\ generated' \subseteq Created BY DEF WalletInv, TypeOK
<1>2. op' = [kind |-> "check", of |-> page.address, passphrase |-> None, transfer |-> 0,
             late |-> FALSE]
  BY <1>1, RunsOp DEF Kinds
<1>3. op' \in Op BY <1>1, <1>2, Names DEF Op, Kinds
<1>4. Captured' /\ SavesFirst' BY <1>1, <1>2 DEF Captured, SavesFirst
<1>5. NotOvertaken' BY <1>2 DEF NotOvertaken, WalletInv, KnowsKeystore
<1> QED BY <1>1, <1>2, <1>3, <1>4, <1>5, TapStep

(* A transfer by the page or the CLI is one more on the chain.                *)
LEMMA TransferGrows ==
  ASSUME WalletInv, NEW w \in Wallets, transfers' = Transfer(w)
  PROVE  /\ transfers' \in Seq(Sent) /\ ChainGrows
         /\ Len(transfers) + 1 \in DOMAIN transfers' /\ Len(transfers) + 1 \in Nat
         /\ transfers'[Len(transfers) + 1].from = w
<1> DEFINE t == [from |-> w, mined |-> FALSE]
<1>1. transfers \in Seq(Sent) /\ t \in Sent BY DEF WalletInv, TypeOK, Sent
<1>2. transfers' = Append(transfers, t) BY DEF Transfer
<1>3. t.from = w OBVIOUS
<1> HIDE DEF t
<1>4. /\ transfers' \in Seq(Sent) /\ Len(transfers') = Len(transfers) + 1
      /\ \A i \in 1 .. Len(transfers) : transfers'[i] = transfers[i]
      /\ transfers'[Len(transfers) + 1] = t
  BY <1>1, <1>2, AppendProperties
<1>5. /\ Len(transfers) \in Nat /\ DOMAIN transfers = 1 .. Len(transfers)
      /\ DOMAIN transfers' = 1 .. Len(transfers) + 1
  BY <1>1, <1>4, LenProperties
<1> QED BY <1>3, <1>4, <1>5 DEF ChainGrows

LEMMA SameChain ==
  ASSUME WalletInv, transfers' = transfers
  PROVE  transfers' \in Seq(Sent) /\ ChainGrows
BY DEF WalletInv, TypeOK, Sent, ChainGrows

LEMMA BroadcastStep ==
  ASSUME WalletInv, Broadcast
  PROVE  WalletInv'
<1> USE DEF Broadcast
<1>1. op.of \in Wallets /\ op \in Op /\ op.kind = "send"
  BY DEF WalletInv, Captured, TypeOK, Op, Kinds
<1>2. /\ UNCHANGED <<localStorage, page, left, notes, generated>>
      /\ generated' \subseteq Created /\ left' \in [Slots -> Op] /\ LeftCaptured'
  BY DEF WalletInv, TypeOK, LeftCaptured
<1>3. CASE op' = Idle /\ (transfers' = transfers \/ transfers' = Transfer(op.of))
  <2>1. transfers' \in Seq(Sent) /\ ChainGrows BY <1>1, <1>3, TransferGrows, SameChain
  <2>2. Captured' /\ SavesFirst' /\ NotOvertaken'
    BY <1>3, IdleType DEF Captured, SavesFirst, NotOvertaken
  <2> QED BY <1>1, <1>2, <1>3, <2>1, <2>2, IdleType, OpStep
<1>4. CASE /\ transfers' = Transfer(op.of)
           /\ op' = [op EXCEPT !.kind = "receipt", !.transfer = Len(transfers) + 1]
  <2>1. /\ transfers' \in Seq(Sent) /\ ChainGrows
        /\ Len(transfers) + 1 \in DOMAIN transfers' /\ Len(transfers) + 1 \in Nat
        /\ transfers'[Len(transfers) + 1].from = op.of
    BY <1>1, <1>4, TransferGrows
  <2>2. /\ op' \in Op /\ op'.kind = "receipt" /\ op'.of = op.of /\ op'.late = op.late
        /\ op'.transfer = Len(transfers) + 1
    BY <1>1, <1>4, <2>1 DEF Op, Kinds
  <2>3. Captured' /\ SavesFirst' BY <1>1, <1>2, <2>1, <2>2 DEF WalletInv, Captured, SavesFirst
  <2>4. NotOvertaken' BY <1>1, <1>2, <2>2 DEF WalletInv, NotOvertaken
  <2> QED BY <1>1, <1>2, <2>1, <2>2, <2>3, <2>4, OpStep
<1> QED BY <1>3, <1>4

(* The chain mines and the CLI works behind the page's back.                  *)
LEMMA ElsewhereOnChain ==
  ASSUME WalletInv, UNCHANGED <<localStorage, page, op, notes>>,
         left' \in [Slots -> Op], LeftCaptured', generated' \subseteq Created,
         transfers' \in Seq(Sent), ChainGrows
  PROVE  WalletInv'
<1>1. op' \in Op BY DEF WalletInv, TypeOK
<1>2. Captured' BY DEF WalletInv, Captured, ChainGrows
<1>3. SavesFirst' /\ NotOvertaken' BY DEF WalletInv, SavesFirst, NotOvertaken
<1>4. (At("unlock") /\ op.late => page.sendResult = 0 \/ "sendResult" \in late)'
  BY DEF WalletInv, ResultStands
<1> QED BY <1>1, <1>2, <1>3, <1>4, OpStep

LEMMA ChainStep ==
  ASSUME WalletInv, Mine \/ CliSend
  PROVE  WalletInv'
<1>1. /\ UNCHANGED <<localStorage, page, op, left, notes, generated>>
      /\ generated' \subseteq Created /\ left' \in [Slots -> Op] /\ LeftCaptured'
  BY DEF Mine, CliSend, WalletInv, TypeOK, LeftCaptured
<1>2. CASE CliSend
  <2>1. PICK ks \in Files, p \in Passphrases :
          NodeOpens(ks, p) # None /\ transfers' = Transfer(NodeOpens(ks, p))
    BY <1>2 DEF CliSend
  <2>2. generated \subseteq Wallets /\ localStorage.keystore \in Keystore \cup {None}
    BY Names DEF WalletInv, TypeOK
  <2>3. Files \subseteq Keystore BY <2>2, Names DEF Files, NodeFile, Keystore
  <2>4. NodeOpens(ks, p) \in Wallets BY <2>1, <2>3 DEF NodeOpens, Keystore
  <2> QED BY <1>1, <2>1, <2>4, TransferGrows, ElsewhereOnChain
<1>3. CASE Mine
  <2>1. PICK i \in DOMAIN transfers : transfers' = [transfers EXCEPT ![i].mined = TRUE]
    BY <1>3 DEF Mine
  <2> DEFINE t == [transfers[i] EXCEPT !.mined = TRUE]
  <2>2. transfers \in Seq(Sent) /\ DOMAIN transfers = 1 .. Len(transfers) /\ Len(transfers) \in Nat
    BY LenProperties DEF WalletInv, TypeOK, Sent
  <2>3. transfers[i] \in Sent BY <2>1, <2>2
  <2>4. t \in Sent /\ t.from = transfers[i].from /\ t.mined BY <2>3 DEF Sent
  <2>5. transfers' = [transfers EXCEPT ![i] = t] BY <2>1
  <2> HIDE DEF t
  <2>i. i \in 1 .. Len(transfers) BY <2>1, <2>2
  <2>e. [transfers EXCEPT ![i] = t] \in Seq(Sent)
    BY <2>2, <2>4, <2>i, ExceptSeq
  <2>6. /\ transfers' \in Seq(Sent) /\ Len(transfers') = Len(transfers)
        /\ \A j \in 1 .. Len(transfers) : transfers'[j] = IF j = i THEN t ELSE transfers[j]
    BY <2>2, <2>4, <2>5, <2>i, <2>e, ExceptSeq
  <2>7. ChainGrows BY <2>2, <2>4, <2>6, LenProperties DEF ChainGrows
  <2> QED BY <1>1, <2>6, <2>7, ElsewhereOnChain
<1> QED BY <1>2, <1>3

LEMMA CliStep ==
  ASSUME WalletInv, CliGenerate
  PROVE  WalletInv'
<1>1. /\ UNCHANGED <<localStorage, page, op, left, notes, transfers>>
      /\ generated' \subseteq Created /\ left' \in [Slots -> Op] /\ LeftCaptured'
  BY Names DEF CliGenerate, WalletInv, TypeOK, LeftCaptured
<1> QED BY <1>1, SameChain, ElsewhereOnChain

(* A transfer left running goes on the chain, and no further.                 *)
LEMMA LeftBroadcastStep ==
  ASSUME WalletInv, NEW s \in Slots, LeftBroadcast(s)
  PROVE  WalletInv'
<1> USE DEF LeftBroadcast
<1>1. left[s].of \in Wallets /\ left \in [Slots -> Op] BY DEF WalletInv, LeftCaptured, TypeOK
<1>2. left' \in [Slots -> Op] /\ LeftCaptured'
  BY <1>1, IdleType DEF WalletInv, LeftCaptured
<1>3. /\ UNCHANGED <<localStorage, page, op, notes, generated>>
      /\ generated' \subseteq Created /\ op \in Op
  BY DEF WalletInv, TypeOK
<1>4. transfers' = transfers \/ transfers' = Transfer(left[s].of) OBVIOUS
<1>5. transfers' \in Seq(Sent) /\ ChainGrows BY <1>1, <1>4, TransferGrows, SameChain
<1> QED BY <1>2, <1>3, <1>5, ElsewhereOnChain

(* A save gives the page the keystore it stores, or stores none.              *)
LEMMA SaveStep ==
  ASSUME WalletInv, Save
  PROVE  WalletInv'
<1> USE IdleType, Names, KeystoreAssumption DEF WalletInv, Save, Stores, StoresHalf
<1>1. /\ op.of \in Wallets /\ op.passphrase \in Passphrases /\ ~ page.hasKeystore
      /\ op' = Idle /\ UNCHANGED <<left, chain, late, behind, elsewhere>> /\ At("save")
  BY DEF Captured, SavesFirst
<1>2. localStorage \in Store /\ page \in Page /\ faults \in Nat BY DEF TypeOK, Store, Page
<1> DEFINE ks == PageFile(op.of, op.passphrase)
<1>3. /\ ks \in Keystore /\ ks # None /\ ks.wallet = op.of
      /\ PageOpens(ks, ks.passphrase) = op.of /\ NodeOpens(ks, ks.passphrase) = op.of
  BY <1>1 DEF PageFile, Keystore, PageOpens, NodeOpens
<1> HIDE DEF ks
<1>4. CASE /\ localStorage' = [address |-> op.of, keystore |-> ks]
           /\ page' = [page EXCEPT !.address = op.of, !.hasKeystore = TRUE] /\ faults' = faults
  <2>1. localStorage' \in Store BY <1>1, <1>3, <1>4 DEF Store
  <2>2. page' \in Page BY <1>1, <1>2, <1>4 DEF Page
  <2>3. /\ page'.address = op.of /\ page'.hasKeystore /\ page'.key = page.key
        /\ page'.sendResult = page.sendResult /\ page'.balance = page.balance
        /\ page'.receive = page.receive
    BY <1>2, <1>4 DEF Page
  <2>4. TypeOK' BY <1>1, <1>4, <2>1, <2>2 DEF TypeOK, Store, Page, Op, Kinds
  <2>5. Captured' /\ LeftCaptured' /\ SavesFirst' /\ NotOvertaken'
    BY <1>1 DEF Captured, LeftCaptured, SavesFirst, NotOvertaken
  <2>6. KnowsKeystore' /\ AddressSpendable'
    BY <1>3, <1>4, <2>3 DEF KnowsKeystore, AddressSpendable
  <2>7. ResultStands' BY <1>1, <2>3 DEF ResultStands
  <2>8. SignsForKeystore' BY <1>1, <2>3 DEF SignsForKeystore
  <2>9. ChecksOneWallet' BY <1>1, <1>4, <2>3 DEF ChecksOneWallet, KnowsKeystore
  <2> QED BY <2>4, <2>5, <2>6, <2>7, <2>8, <2>9
<1>5. CASE /\ Fault /\ localStorage' \in {localStorage, [localStorage EXCEPT !.address = op.of]}
           /\ page' = page
  <2>1. localStorage' \in Store /\ localStorage'.keystore = localStorage.keystore
    BY <1>1, <1>2, <1>5 DEF Store
  <2>2. faults' \in Nat /\ faults' # 0 BY <1>2, <1>5 DEF Fault
  <2>3. TypeOK' BY <1>1, <1>5, <2>1, <2>2 DEF TypeOK, Store, Op, Kinds
  <2>4. Captured' /\ LeftCaptured' /\ SavesFirst' /\ NotOvertaken'
    BY <1>1 DEF Captured, LeftCaptured, SavesFirst, NotOvertaken
  <2>5. KnowsKeystore' /\ AddressSpendable' BY <2>2 DEF KnowsKeystore, AddressSpendable
  <2>6. ResultStands' BY <1>1, <1>5, <2>1 DEF ResultStands
  <2>7. SignsForKeystore' BY <1>1, <1>5, <2>1 DEF SignsForKeystore
  <2>8. ChecksOneWallet' BY <1>1, <1>5, <2>2 DEF ChecksOneWallet
  <2> QED BY <2>3, <2>4, <2>5, <2>6, <2>7, <2>8
<1> QED BY <1>4, <1>5 DEF ks

(* The key comes from the keystore the tap has read.                          *)
LEMMA UnlockedStep ==
  ASSUME WalletInv, Unlocked
  PROVE  WalletInv'
<1> USE IdleType, Names, KeystoreAssumption DEF WalletInv, Unlocked, PageOpens, Sets, TypeOK
<1>1. TypeOK' BY DEF Captured, Keystore, Kinds, Op
<1>2. Captured' BY <1>1 DEF Captured, SignsForKeystore
<1>3. KnowsKeystore' BY <1>1 DEF KnowsKeystore, Captured
<1>4. SavesFirst' BY <1>1 DEF SavesFirst, Captured
<1>5. NotOvertaken' BY <1>1 DEF NotOvertaken, Captured
<1>6. ResultStands' BY <1>1 DEF ResultStands, Captured
<1>7. AddressSpendable' BY <1>1 DEF AddressSpendable, Captured, PageOpens, NodeOpens, Keystore
<1>8. SignsForKeystore' BY <1>1 DEF SignsForKeystore, Captured, NotOvertaken, Keystore
<1>a. LeftCaptured' BY DEF LeftCaptured
<1>9. ChecksOneWallet' BY <1>1 DEF ChecksOneWallet, Captured
<1> QED BY <1>1, <1>2, <1>3, <1>4, <1>5, <1>6, <1>7, <1>8, <1>9, <1>a

(* Kunci takes the key and the result from the page.                          *)
LEMMA LockStep ==
  ASSUME WalletInv, Lock
  PROVE  WalletInv'
<1> USE IdleType, Names, KeystoreAssumption DEF WalletInv, Lock, CanLock, TypeOK
<1>1. TypeOK' BY DEF Captured, Keystore, Kinds, Op
<1>2. Captured' BY <1>1 DEF Captured, SignsForKeystore
<1>3. KnowsKeystore' BY <1>1 DEF KnowsKeystore, Captured
<1>4. SavesFirst' BY <1>1 DEF SavesFirst, Captured
<1>5. NotOvertaken' BY <1>1 DEF NotOvertaken, Captured
<1>6. ResultStands' BY <1>1 DEF ResultStands, Captured
<1>7. AddressSpendable' BY <1>1 DEF AddressSpendable, Captured, PageOpens, NodeOpens, Keystore
<1>8. SignsForKeystore' BY <1>1 DEF SignsForKeystore, Captured
<1>a. LeftCaptured' BY DEF LeftCaptured
<1>9. ChecksOneWallet' BY <1>1 DEF ChecksOneWallet, Captured
<1> QED BY <1>1, <1>2, <1>3, <1>4, <1>5, <1>6, <1>7, <1>8, <1>9, <1>a

(* The first tap on Hapus.                                                    *)
LEMMA ArmWipeStep ==
  ASSUME WalletInv, ArmWipe
  PROVE  WalletInv'
<1> USE IdleType, Names, KeystoreAssumption DEF WalletInv, ArmWipe, TypeOK
<1>1. TypeOK' BY DEF Captured, Keystore, Kinds, Op
<1>2. Captured' BY <1>1 DEF Captured, SignsForKeystore
<1>3. KnowsKeystore' BY <1>1 DEF KnowsKeystore, Captured
<1>4. SavesFirst' BY <1>1 DEF SavesFirst, Captured
<1>5. NotOvertaken' BY <1>1 DEF NotOvertaken, Captured
<1>6. ResultStands' BY <1>1 DEF ResultStands, Captured
<1>7. AddressSpendable' BY <1>1 DEF AddressSpendable, Captured, PageOpens, NodeOpens, Keystore
<1>8. SignsForKeystore' BY <1>1 DEF SignsForKeystore, Captured
<1>a. LeftCaptured' BY DEF LeftCaptured
<1>9. ChecksOneWallet' BY <1>1 DEF ChecksOneWallet, Captured
<1> QED BY <1>1, <1>2, <1>3, <1>4, <1>5, <1>6, <1>7, <1>8, <1>9, <1>a

(* The second: what was running is late from here on.                         *)
LEMMA WipeStep ==
  ASSUME WalletInv, Wipe
  PROVE  WalletInv'
<1> USE IdleType, Names, KeystoreAssumption DEF WalletInv, Wipe
<1>1. /\ page' = WipedPage /\ op' = [op EXCEPT !.late = ~ Free] /\ page.hasKeystore
      /\ late' = IF page.sendResult # 0 THEN {"sendResult"} ELSE {}
      /\ UNCHANGED <<left, chain, behind, elsewhere>>
  OBVIOUS
<1>2. localStorage \in Store /\ page \in Page /\ op \in Op /\ faults \in Nat
  BY DEF TypeOK, Store, Page, Op, Kinds
<1>3. /\ page' \in Page /\ page'.address = None /\ ~ page'.hasKeystore /\ page'.key = None
      /\ page'.sendResult = page.sendResult /\ page'.balance = None /\ page'.receive = None
  BY <1>1, <1>2 DEF Page, WipedPage
<1>4. /\ op' \in Op /\ op'.kind = op.kind /\ op'.of = op.of /\ op'.transfer = op.transfer
      /\ op'.passphrase = op.passphrase /\ (op'.late <=> ~ Free)
  BY <1>1, <1>2 DEF Op
<1>5. \/ localStorage' = Empty /\ faults' = faults
      \/ /\ localStorage' \in {localStorage, [localStorage EXCEPT !.keystore = None]}
         /\ faults' = faults + 1
  BY Zenon DEF Removed, Fault
<1>6. /\ localStorage' \in Store /\ faults' \in Nat
      /\ faults' = 0 => localStorage'.keystore = None /\ localStorage'.address = None
  BY <1>2, <1>5 DEF Store, Empty
<1>7. TypeOK' BY <1>1, <1>3, <1>4, <1>6 DEF TypeOK, Store, Page, Op, Kinds
<1>8. Captured' /\ LeftCaptured' BY <1>1, <1>3, <1>4 DEF Captured, LeftCaptured
<1>9. KnowsKeystore' /\ AddressSpendable' BY <1>3, <1>6 DEF KnowsKeystore, AddressSpendable
<1>10. SavesFirst' /\ NotOvertaken' BY <1>3, <1>4 DEF SavesFirst, NotOvertaken
<1>11. ResultStands' BY <1>1, <1>3 DEF ResultStands
<1>12. SignsForKeystore' /\ ChecksOneWallet' BY <1>3 DEF SignsForKeystore, ChecksOneWallet
<1> QED BY <1>7, <1>8, <1>9, <1>10, <1>11, <1>12

(* A typed address is none that a save has stored.                            *)
LEMMA EditStep ==
  ASSUME WalletInv, Edit
  PROVE  WalletInv'
<1> USE Names DEF WalletInv, Edit, Typeable
<1>1. PICK a \in Typeable :
        /\ page' = [page EXCEPT !.address = a]
        /\ \/ localStorage' = [localStorage EXCEPT !.address = a] /\ UNCHANGED faults
           \/ UNCHANGED localStorage /\ Fault
  OBVIOUS
<1>2. localStorage \in Store /\ page \in Page /\ faults \in Nat BY DEF TypeOK, Store, Page
<1>3. /\ UNCHANGED <<op, left, chain, late, behind, elsewhere>>
      /\ a \notin Wallets /\ a \in Addresses
  OBVIOUS
<1>4. /\ page' \in Page /\ page'.address = a /\ page'.hasKeystore = page.hasKeystore
      /\ page'.key = page.key /\ page'.sendResult = page.sendResult
      /\ page'.balance = page.balance /\ page'.receive = page.receive
  BY <1>1, <1>2 DEF Page
<1>5. /\ localStorage' \in Store /\ localStorage'.keystore = localStorage.keystore
      /\ faults' \in Nat /\ (faults' = 0 => faults = 0 /\ localStorage'.address = a)
  BY <1>1, <1>2 DEF Store, Fault
<1>6. TypeOK' BY <1>3, <1>4, <1>5 DEF TypeOK, Store, Page, Op, Kinds
<1>7. Captured' /\ LeftCaptured' /\ SavesFirst' BY <1>3, <1>4 DEF Captured, LeftCaptured, SavesFirst
<1>8. KnowsKeystore' /\ AddressSpendable'
  BY <1>3, <1>4, <1>5 DEF KnowsKeystore, AddressSpendable
<1>9. NotOvertaken' BY <1>3, <1>4, <1>5 DEF NotOvertaken
<1>10. ResultStands' BY <1>3, <1>4, <1>5 DEF ResultStands
<1>11. SignsForKeystore' BY <1>3, <1>4, <1>5 DEF SignsForKeystore
<1>12. ChecksOneWallet' BY <1>3, <1>4, <1>5 DEF ChecksOneWallet
<1> QED BY <1>6, <1>7, <1>8, <1>9, <1>10, <1>11, <1>12

(* The receipt shows a mined transfer of the key it was sent with.            *)
LEMMA ReceiptStep ==
  ASSUME WalletInv, Receipt
  PROVE  WalletInv'
<1> USE IdleType, Names, KeystoreAssumption DEF WalletInv, Receipt, Sets, TypeOK
<1>0. op.of \in Wallets /\ op.transfer \in Nat /\ page \in Page /\ op \in Op
  BY DEF Captured, Page, Op
<1>1. TypeOK' BY <1>0 DEF Page
<1>2. Captured' BY <1>1 DEF Captured, SignsForKeystore
<1>3. KnowsKeystore' BY <1>1 DEF KnowsKeystore, Captured
<1>4. SavesFirst' BY <1>1 DEF SavesFirst, Captured
<1>5. NotOvertaken' BY <1>1 DEF NotOvertaken, Captured
<1>6. ResultStands' BY <1>1 DEF ResultStands, Captured, NotOvertaken
<1>7. AddressSpendable' BY <1>1 DEF AddressSpendable, Captured, PageOpens, NodeOpens, Keystore
<1>8. SignsForKeystore' BY <1>1 DEF SignsForKeystore, Captured
<1>a. LeftCaptured' BY DEF LeftCaptured
<1>9. ChecksOneWallet' BY <1>1 DEF ChecksOneWallet, Captured
<1> QED BY <1>1, <1>2, <1>3, <1>4, <1>5, <1>6, <1>7, <1>8, <1>9, <1>a

(* The check asks for the balance first,                                      *)
LEMMA CheckBalanceStep ==
  ASSUME WalletInv, CheckBalance
  PROVE  WalletInv'
<1> USE IdleType, Names, KeystoreAssumption DEF WalletInv, CheckBalance, TypeOK
<1>1. /\ op \in Op /\ page \in Page /\ op.of \in Addresses /\ op.kind = "check"
      /\ UNCHANGED <<localStorage, left, chain, notes>>
  BY DEF Captured, Page
<1>2. CASE op' = Idle /\ page' = page
  <2>1. TypeOK' BY <1>1, <1>2 DEF Page
  <2>2. /\ Captured' /\ LeftCaptured' /\ KnowsKeystore' /\ SavesFirst' /\ NotOvertaken'
        /\ AddressSpendable' /\ SignsForKeystore'
    BY <1>1, <1>2 DEF Captured, LeftCaptured, KnowsKeystore, SavesFirst, NotOvertaken,
                      AddressSpendable, SignsForKeystore
  <2>3. ResultStands' /\ ChecksOneWallet' BY <1>1, <1>2 DEF ResultStands, ChecksOneWallet
  <2> QED BY <2>1, <2>2, <2>3
<1>3. CASE page' = [page EXCEPT !.balance = op.of] /\ op' = [op EXCEPT !.kind = "receive"]
  <2>1. /\ op' \in Op /\ op'.kind = "receive" /\ op'.of = op.of /\ op'.late = op.late
        /\ page' \in Page /\ page'.balance = op.of /\ page'.receive = page.receive
        /\ page'.address = page.address /\ page'.hasKeystore = page.hasKeystore
        /\ page'.key = page.key /\ page'.sendResult = page.sendResult
    BY <1>1, <1>3 DEF Page, Op, Kinds
  <2>2. TypeOK' BY <1>1, <2>1 DEF Page
  <2>3. Captured' /\ LeftCaptured' /\ SavesFirst'
    BY <1>1, <2>1 DEF Captured, LeftCaptured, SavesFirst
  <2>4. KnowsKeystore' /\ AddressSpendable' BY <1>1, <2>1 DEF KnowsKeystore, AddressSpendable
  <2>5. NotOvertaken' BY <1>1, <2>1 DEF NotOvertaken
  <2>6. ResultStands' BY <1>1, <2>1 DEF ResultStands
  <2>7. SignsForKeystore' BY <1>1, <2>1 DEF SignsForKeystore
  <2>8. ChecksOneWallet' BY <1>1, <2>1 DEF ChecksOneWallet
  <2> QED BY <2>2, <2>3, <2>4, <2>5, <2>6, <2>7, <2>8
<1> QED BY <1>2, <1>3

(* and for the code of the same address then.                                 *)
LEMMA CheckReceiveStep ==
  ASSUME WalletInv, CheckReceive
  PROVE  WalletInv'
<1> USE IdleType, Names, KeystoreAssumption DEF WalletInv, CheckReceive, TypeOK
<1>1. TypeOK'
  <2>1. op' \in Op /\ page \in Page /\ op.of \in Addresses BY DEF Captured, Page
  <2>2. page' \in Page BY <2>1 DEF Page
  <2>3. late' \subseteq {"key", "sendResult", "receive", "balance"} OBVIOUS
  <2> QED BY <2>1, <2>2, <2>3 DEF Page, Op, Kinds
<1>2. Captured' BY <1>1 DEF Captured, SignsForKeystore
<1>3. KnowsKeystore' BY <1>1 DEF KnowsKeystore, Captured
<1>4. SavesFirst' BY <1>1 DEF SavesFirst, Captured
<1>5. NotOvertaken' BY <1>1 DEF NotOvertaken, Captured
<1>6. ResultStands' BY <1>1 DEF ResultStands, Captured
<1>7. AddressSpendable' BY <1>1 DEF AddressSpendable, Captured, PageOpens, NodeOpens, Keystore
<1>8. SignsForKeystore' BY <1>1 DEF SignsForKeystore, Captured
<1>a. LeftCaptured' BY DEF LeftCaptured
<1>9. ChecksOneWallet' BY <1>1 DEF ChecksOneWallet, Captured, NotOvertaken
<1> QED BY <1>1, <1>2, <1>3, <1>4, <1>5, <1>6, <1>7, <1>8, <1>9, <1>a

(* A page that starts knows what is stored.                                   *)
LEMMA LoadsStep ==
  ASSUME WalletInv, Loads, left' \in [Slots -> Op], LeftCaptured'
  PROVE  WalletInv'
<1> USE IdleType, Names, KeystoreAssumption DEF WalletInv, Loads, Loaded, TypeOK
<1>1. TypeOK' BY DEF Sent
<1>2. Captured' BY DEF Captured
<1>3. KnowsKeystore' BY DEF KnowsKeystore, AddressSpendable, PageOpens
<1>4. SavesFirst' /\ NotOvertaken' BY DEF SavesFirst, NotOvertaken
<1>5. ResultStands' BY DEF ResultStands
<1>6. AddressSpendable' BY DEF AddressSpendable, PageOpens, NodeOpens
<1>7. SignsForKeystore' /\ ChecksOneWallet' BY DEF SignsForKeystore, ChecksOneWallet
<1> QED BY <1>1, <1>2, <1>3, <1>4, <1>5, <1>6, <1>7

(* A reload leaves nothing running, a navigation what it was.                 *)
LEMMA StartStep ==
  ASSUME WalletInv, Reload \/ Navigate
  PROVE  WalletInv'
<1>1. left \in [Slots -> Op] /\ op \in Op BY DEF WalletInv, TypeOK
<1>2. CASE Reload
  <2>1. Loads /\ left' = [s \in Slots |-> Idle] BY <1>2 DEF Reload
  <2>2. left' \in [Slots -> Op] /\ LeftCaptured' BY <2>1, IdleType DEF LeftCaptured
  <2> QED BY <2>1, <2>2, LoadsStep
<1>3. CASE Navigate /\ op.kind \in {"save", "send"}
  <2>1. PICK s \in Slots : Loads /\ left' = [left EXCEPT ![s] = op] BY <1>3 DEF Navigate
  <2>2. left' \in [Slots -> Op] /\ LeftCaptured'
    BY <1>1, <1>3, <2>1 DEF WalletInv, Captured, LeftCaptured
  <2> QED BY <2>1, <2>2, LoadsStep
<1>4. CASE Navigate /\ op.kind \notin {"save", "send"}
  <2>1. Loads /\ left' = left BY <1>4 DEF Navigate
  <2>2. left' \in [Slots -> Op] /\ LeftCaptured' BY <1>1, <2>1 DEF WalletInv, LeftCaptured
  <2> QED BY <2>1, <2>2, LoadsStep
<1> QED BY <1>2, <1>3, <1>4

(* A save left running stores behind the page.                                *)
LEMMA LeftSaveStep ==
  ASSUME WalletInv, NEW s \in Slots, LeftSave(s)
  PROVE  WalletInv'
<1> USE Names, KeystoreAssumption DEF WalletInv, LeftSave, Stores, StoresHalf
<1>1. /\ left[s].of \in Wallets /\ left[s].passphrase \in Passphrases
      /\ left \in [Slots -> Op] /\ left' = [left EXCEPT ![s] = Idle]
      /\ behind' = TRUE /\ UNCHANGED <<page, op, chain, late, elsewhere>>
  BY DEF LeftCaptured, TypeOK
<1>2. localStorage \in Store /\ faults \in Nat BY DEF TypeOK, Store
<1>3. left' \in [Slots -> Op] /\ LeftCaptured' BY <1>1, IdleType DEF LeftCaptured
<1> DEFINE ks == PageFile(left[s].of, left[s].passphrase)
<1>4. /\ ks \in Keystore /\ ks # None /\ ks.wallet = left[s].of
      /\ PageOpens(ks, ks.passphrase) = left[s].of /\ NodeOpens(ks, ks.passphrase) = left[s].of
  BY <1>1 DEF PageFile, Keystore, PageOpens, NodeOpens
<1> HIDE DEF ks
<1>5. /\ localStorage' \in Store /\ faults' \in Nat /\ AddressSpendable'
  <2>1. CASE localStorage' = [address |-> left[s].of, keystore |-> ks] /\ faults' = faults
    BY <1>1, <1>2, <1>4, <2>1 DEF Store, AddressSpendable
  <2>2. CASE /\ Fault
             /\ localStorage' \in {localStorage, [localStorage EXCEPT !.address = left[s].of]}
    BY <1>1, <1>2, <2>2 DEF Store, AddressSpendable, Fault
  <2> QED BY <2>1, <2>2 DEF ks
<1>6. TypeOK' BY <1>1, <1>3, <1>5 DEF TypeOK, Store
<1>7. Captured' /\ SavesFirst' BY <1>1 DEF Captured, SavesFirst
<1>8. KnowsKeystore' /\ NotOvertaken' BY <1>1 DEF KnowsKeystore, NotOvertaken
<1>9. ResultStands' BY <1>1 DEF ResultStands
<1>10. SignsForKeystore' /\ ChecksOneWallet' BY <1>1 DEF SignsForKeystore, ChecksOneWallet
<1> QED BY <1>3, <1>5, <1>6, <1>7, <1>8, <1>9, <1>10

(* Another tab writes.                                                        *)
LEMMA ElsewhereStep ==
  ASSUME WalletInv, Elsewhere
  PROVE  WalletInv'
<1> USE IdleType, Names, KeystoreAssumption DEF WalletInv, Elsewhere, Typeable, PageFile, Empty, Removed, TypeOK
<1>1. TypeOK' BY DEF Captured, Keystore, Kinds, Op
<1>2. Captured' BY <1>1 DEF Captured, SignsForKeystore
<1>3. KnowsKeystore' BY <1>1 DEF KnowsKeystore, Captured
<1>4. SavesFirst' BY <1>1 DEF SavesFirst, Captured
<1>5. NotOvertaken' BY <1>1 DEF NotOvertaken, Captured
<1>6. ResultStands' BY <1>1 DEF ResultStands, Captured
<1>7. AddressSpendable' BY <1>1 DEF AddressSpendable, Captured, PageOpens, NodeOpens, Keystore
<1>8. SignsForKeystore' BY <1>1 DEF SignsForKeystore, Captured
<1>a. LeftCaptured' BY DEF LeftCaptured
<1>9. ChecksOneWallet' BY <1>1 DEF ChecksOneWallet, Captured
<1> QED BY <1>1, <1>2, <1>3, <1>4, <1>5, <1>6, <1>7, <1>8, <1>9, <1>a

------------------------------------------------------------------------------
LEMMA InitWallet == Init => WalletInv
<1> SUFFICES ASSUME Init PROVE WalletInv OBVIOUS
<1> USE IdleType, Names DEF Init, Loaded, Empty
<1>1. transfers \in Seq(Sent) BY EmptySeq
<1>2. TypeOK BY <1>1, WalletAssumption DEF TypeOK, Sent
<1>3. /\ Captured /\ LeftCaptured /\ KnowsKeystore /\ SavesFirst /\ NotOvertaken /\ ResultStands
      /\ AddressSpendable /\ SignsForKeystore /\ ChecksOneWallet
  BY DEF Captured, LeftCaptured, KnowsKeystore, SavesFirst, NotOvertaken, ResultStands,
         AddressSpendable, SignsForKeystore, ChecksOneWallet
<1> QED BY <1>2, <1>3 DEF WalletInv

LEMMA WalletStutters ==
  ASSUME WalletInv, UNCHANGED vars
  PROVE  WalletInv'
<1>1. UNCHANGED <<localStorage, page, op, left, notes, generated, transfers>> BY DEF vars
<1>2. generated' \subseteq Created /\ left' \in [Slots -> Op] /\ LeftCaptured'
  BY <1>1 DEF WalletInv, TypeOK, LeftCaptured
<1> QED BY <1>1, <1>2, SameChain, ElsewhereOnChain

LEMMA WalletStep == WalletInv /\ [Next]_vars => WalletInv'
<1> SUFFICES ASSUME WalletInv, [Next]_vars PROVE WalletInv' OBVIOUS
<1>1. CASE UNCHANGED vars BY <1>1, WalletStutters
<1>2. CASE Next
  BY <1>2, MakeStep, SaveStep, UnlockStep, UnlockedStep, LockStep, ArmWipeStep, WipeStep,
     EditStep, SendStep, BroadcastStep, ReceiptStep, CheckStep, CheckBalanceStep,
     CheckReceiveStep, StartStep, LeftSaveStep, LeftBroadcastStep, ElsewhereStep, ChainStep,
     CliStep
  DEF Next
<1> QED BY <1>1, <1>2

(* In every reachable state the parts of WalletInv hold together: what each   *)
(* tap has captured, what the page knows of the storage, and what of it a     *)
(* wipe, another tab or a tap left running has overtaken.                     *)
THEOREM WalletInvariance == Spec => []WalletInv
BY InitWallet, WalletStep, PTL DEF Spec

(* The address that a save has stored is the one its keystore opens to, in    *)
(* the browser and in the CLI, however many tabs and taps left running write, *)
(* while the storage takes every write.                                       *)
THEOREM AddressSpendableAlways == Spec => []AddressSpendable
<1>1. WalletInv => AddressSpendable BY DEF WalletInv
<1> QED BY <1>1, WalletInvariance, PTL

(* "Kirim" signs with the key of the keystore on the device, whatever taps    *)
(* overlap, unless the wipe has overtaken the unlock or something was stored  *)
(* behind the page.                                                           *)
THEOREM SignsForKeystoreAlways == Spec => []SignsForKeystore
<1>1. WalletInv => SignsForKeystore BY DEF WalletInv
<1> QED BY <1>1, WalletInvariance, PTL

(* The transfer under "Terkirim" is mined and of the key on the page: both    *)
(* are of the one keystore, by ResultStands and SignsForKeystore.             *)
THEOREM ShownTransferOfKeyAlways == Spec => []ShownTransferOfKey
<1>1. WalletInv => ShownTransferOfKey
  BY DEF WalletInv, TypeOK, ResultStands, SignsForKeystore, ShownTransferOfKey
<1> QED BY <1>1, WalletInvariance, PTL

(* The balance and the code shown are of one address, and if it was stored by *)
(* a save and not typed, the wallet still has its keystore.                   *)
THEOREM ChecksOneWalletAlways == Spec => []ChecksOneWallet
<1>1. WalletInv => ChecksOneWallet BY DEF WalletInv
<1> QED BY <1>1, WalletInvariance, PTL

(* A keystore goes only by the wipe, and with its address: a save finds none, *)
(* since it was tapped on a page that knew of none, unless something was      *)
(* stored behind that page or the storage has refused a write.                *)
THEOREM KeystoreKeptAlways == Spec => KeystoreKept
<1>1. ASSUME WalletInv, Next, localStorage.keystore # None,
             localStorage'.keystore # localStorage.keystore
      PROVE  localStorage' = Empty \/ behind' \/ faults' > 0
  <2> SUFFICES ASSUME faults' = 0, ~ behind' PROVE localStorage' = Empty
    <3>1. WalletInv' BY <1>1, WalletStep
    <3>2. faults' \in Nat BY <3>1 DEF WalletInv, TypeOK
    <3> QED BY <3>2
  <2>1. localStorage \in Store /\ faults \in Nat BY <1>1 DEF WalletInv, TypeOK, Store
  <2>2. localStorage' # localStorage BY <1>1
  <2>3. ~ Fault BY <2>1 DEF Fault
  <2>4. CASE Save
    <3>1. ~ behind /\ faults = 0 BY <2>3, <2>4 DEF Save, Stores, StoresHalf
    <3>2. localStorage.keystore = None
      BY <1>1, <2>4, <3>1 DEF Save, WalletInv, SavesFirst, KnowsKeystore
    <3> QED BY <1>1, <3>2
  <2>5. CASE Wipe BY <2>3, <2>5 DEF Wipe, Removed
  <2>6. CASE Edit
    <3>1. localStorage'.keystore = localStorage.keystore BY <2>1, <2>6 DEF Edit, Store
    <3> QED BY <1>1, <3>1
  <2>7. ~ Elsewhere BY DEF Elsewhere
  <2>8. \A s \in Slots : ~ LeftSave(s) BY DEF LeftSave
  <2> QED
    BY <1>1, <2>2, <2>4, <2>5, <2>6, <2>7, <2>8
    DEF Next, Create, Import, Unlock, Unlocked, Lock, ArmWipe, Send, Broadcast, Receipt, Check,
        CheckBalance, CheckReceive, Loads, Reload, Navigate, LeftBroadcast, Mine, CliGenerate,
        CliSend
<1>2. WalletInv /\ [Next]_vars =>
        [localStorage.keystore # None /\ localStorage'.keystore # localStorage.keystore =>
           localStorage' = Empty \/ behind' \/ faults' > 0]_localStorage
  BY <1>1 DEF vars
<1> QED BY <1>2, WalletInvariance, PTL DEF Spec, KeystoreKept
==============================================================================
