---------------------------- MODULE ServerProofs ----------------------------
(***************************************************************************)
(* The servers beside the drive's core: the delegates of a cell and of the *)
(* OAuth server, the sessions of the SSO cell, the gateway's MCP servers,  *)
(* the root of a realm, the page that lists a directory of the drive, and  *)
(* the write tools of the drive's MCP server.                              *)
(* Each part has its inductive invariant, a lemma per group of actions,    *)
(* and its theorems.                                                       *)
(***************************************************************************)
EXTENDS Grants, SsoSession, Gateway, RealmRoot, Explorer, DriveMcp, Integers, SequenceTheorems,
        FiniteSetTheorems, WellFoundedInduction, TLAPS

USE GrantsAssumption

-----------------------------------------------------------------------------
(* Delegates.  A pair is minted before anything else knows its number. *)

Numbered ==
  /\ \A p \in DOMAIN minted : minted[p].delegate <= p
  /\ \A d \in Pairs : row[d] <= Len(minted) /\ (row[d] # 0 => d <= Len(minted))
  /\ codes \subseteq DOMAIN minted /\ revoked \subseteq DOMAIN minted
  /\ \A p \in Pairs : p > Len(minted) => handed[p] = 0
  /\ \A q \in Handlers : call[q].pair <= Len(minted) /\ call[q].delegate <= Len(minted)

(* A first pair has the number of its delegate, a renewed one has not; and what *)
(* is revoked is a delegate.                                                    *)
OwnPair ==
  \A q \in Handlers :
    /\ call[q].pc \notin {"none", "remove"} => call[q].pair # 0
    /\ call[q].pc \in {"get", "put", "remove"} => call[q].delegate # 0
    /\ CallAt(q, "insert") =>
         call[q].pair = call[q].delegate /\ minted[call[q].pair].delegate = call[q].pair
    /\ call[q].pc \in {"get", "put"} =>
         minted[call[q].pair].delegate \notin {0, call[q].pair}

(* Nobody else knows a delegate whose row is yet to be inserted. *)
InsertsAreFirst ==
  \A q \in Handlers : CallAt(q, "insert") =>
    LET d == call[q].delegate
    IN  /\ row[d] = 0 /\ d \notin revoked
        /\ \A r \in Handlers : call[r].delegate = d => r = q

(* A refresh that could put a revoked row back has been counted as overtaking. *)
DeadStayDead ==
  \A d \in revoked \ overtaken :
    row[d] = 0 /\ \A q \in Handlers : CallAt(q, "put") => call[q].delegate # d

(* The pairs that a code of the OAuth server stands for *)
OneUse(p) == minted[p].by = "oauth" /\ minted[p].delegate \in {0, p}
Carries(q, p) == call[q].pc \in {"insert", "answer", "verify"} /\ call[q].pair = p

(* Such a pair is a code, or in one request, or answered, and never two of them. *)
OneHolder ==
  \A p \in DOMAIN minted : OneUse(p) =>
    /\ handed[p] <= 1
    /\ p \in codes => handed[p] = 0 /\ \A q \in Handlers : ~Carries(q, p)
    /\ \A q \in Handlers : Carries(q, p) =>
         handed[p] = 0 /\ \A r \in Handlers : Carries(r, p) => r = q

GrantsInv ==
  GrantsTypeOK /\ Numbered /\ OwnPair /\ InsertsAreFirst /\ DeadStayDead /\ OneHolder

LEMMA GrantsInitInv == GrantsInit => GrantsInv
  <1> SUFFICES ASSUME GrantsInit PROVE GrantsInv
    OBVIOUS
  <1>1. GrantsTypeOK
    BY DEF GrantsInit, GrantsTypeOK, NoCall, Pairs
  <1>2. DOMAIN minted = {} /\ Len(minted) = 0
    BY DEF GrantsInit
  <1> QED
    BY <1>1, <1>2 DEF GrantsInit, GrantsInv, Numbered, OwnPair, InsertsAreFirst, DeadStayDead,
       OneHolder, CallAt, NoCall, Pairs

(* What minting leaves and what it adds *)
LEMMA MintAdds ==
  ASSUME GrantsTypeOK, NEW d \in 0..MaxPairs, NEW i \in Issuers, Mint(d, i)
  PROVE  /\ minted' \in Seq([delegate : 0..MaxPairs, by : Issuers])
         /\ Len(minted') = Len(minted) + 1 /\ Len(minted) \in Nat /\ Len(minted) < MaxPairs
         /\ DOMAIN minted = 1..Len(minted) /\ DOMAIN minted' = 1..(Len(minted) + 1)
         /\ NewPair \in Pairs /\ NewPair = Len(minted) + 1
         /\ minted'[NewPair].delegate = d
         /\ \A p \in DOMAIN minted : minted'[p] = minted[p]
  <1> DEFINE S == [delegate : 0..MaxPairs, by : Issuers]
             x == [delegate |-> d, by |-> i]
  <1>1. /\ minted \in Seq(S) /\ Len(minted) < MaxPairs /\ x \in S /\ x.delegate = d
        /\ minted' = Append(minted, x)
    BY DEF GrantsTypeOK, Mint
  <1> HIDE DEF S, x
  <1>2. /\ minted' \in Seq(S) /\ Len(minted') = Len(minted) + 1 /\ Len(minted) \in Nat
        /\ DOMAIN minted = 1..Len(minted) /\ DOMAIN minted' = 1..(Len(minted) + 1)
        /\ minted'[Len(minted) + 1] = x
        /\ \A p \in 1..Len(minted) : minted'[p] = minted[p]
    BY <1>1
  <1> QED
    BY <1>1, <1>2 DEF NewPair, Pairs, S

LEMMA GrantsTyped ==
  ASSUME GrantsTypeOK
  PROVE  /\ Len(minted) \in 0..MaxPairs /\ DOMAIN minted = 1..Len(minted)
         /\ \A p \in DOMAIN minted :
              p \in Pairs /\ minted[p].delegate \in 0..MaxPairs /\ minted[p].by \in Issuers
         /\ \A p \in Pairs : row[p] \in 0..MaxPairs /\ handed[p] \in Nat
         /\ \A q \in Handlers : call[q].pair \in 0..MaxPairs /\ call[q].delegate \in 0..MaxPairs
  <1> DEFINE S == [delegate : 0..MaxPairs, by : Issuers]
  <1>1. minted \in Seq(S) /\ Len(minted) <= MaxPairs
    BY DEF GrantsTypeOK
  <1>2. Len(minted) \in Nat /\ DOMAIN minted = 1..Len(minted)
    BY <1>1
  <1>3. \A p \in DOMAIN minted : minted[p] \in S
    <2> HIDE DEF S
    <2> QED
      BY <1>1, <1>2, ElementOfSeq
  <1>4. \A p \in DOMAIN minted :
          p \in Pairs /\ minted[p].delegate \in 0..MaxPairs /\ minted[p].by \in Issuers
    BY <1>1, <1>2, <1>3 DEF Pairs
  <1>5. /\ \A p \in Pairs : row[p] \in 0..MaxPairs /\ handed[p] \in Nat
        /\ \A q \in Handlers :
             call[q].pair \in 0..MaxPairs /\ call[q].delegate \in 0..MaxPairs
    BY DEF GrantsTypeOK
  <1> QED
    BY <1>1, <1>2, <1>4, <1>5

GrantPcs == {"none", "insert", "answer", "verify", "get", "put", "remove"}
GrantCalls == [pc : GrantPcs, pair : 0..MaxPairs, delegate : 0..MaxPairs]

LEMMA CallAfter ==
  ASSUME GrantsTypeOK, NEW q \in Handlers, NEW s \in GrantPcs,
         NEW p \in 0..MaxPairs, NEW d \in 0..MaxPairs, Becomes(q, s, p, d)
  PROVE  /\ call' \in [Handlers -> GrantCalls]
         /\ call'[q].pc = s /\ call'[q].pair = p /\ call'[q].delegate = d
         /\ \A r \in Handlers : r # q => call'[r] = call[r]
  BY DEF GrantsTypeOK, GrantCalls, GrantPcs, Becomes

LEMMA CallDone ==
  ASSUME GrantsTypeOK, NEW q \in Handlers, Done(q)
  PROVE  /\ call' \in [Handlers -> GrantCalls]
         /\ call'[q].pc = "none" /\ call'[q].pair = 0 /\ call'[q].delegate = 0
         /\ \A r \in Handlers : r # q => call'[r] = call[r]
  BY DEF GrantsTypeOK, GrantCalls, GrantPcs, Done, NoCall

LEMMA InsertKeeps ==
  ASSUME GrantsInv, NEW q \in Handlers, Insert(q)
  PROVE  GrantsInv'
  <1> USE DEF GrantsInv, CallAt, Free
  <1>1. GrantsTypeOK
    OBVIOUS
  <1>2. /\ call' \in [Handlers -> GrantCalls]
        /\ call'[q].pc = "answer" /\ call'[q].pair = call[q].pair /\ call'[q].delegate = call[q].delegate
        /\ \A r \in Handlers : r # q => call'[r] = call[r]
    BY <1>1, GrantsTyped, CallAfter DEF Insert, GrantPcs
  <1>3. /\ call[q].pc = "insert"
        /\ row' \in [Pairs -> 0..MaxPairs]
        /\ \A d \in Pairs : row'[d] = IF d = call[q].delegate THEN call[q].pair ELSE row[d]
        /\ UNCHANGED <<minted, codes, consents, asked, aged, handed, revoked, overtaken>>
    BY <1>1, GrantsTyped DEF Insert, GrantsTypeOK
  <1>5. GrantsTypeOK'
    BY <1>1, <1>2, <1>3, GrantsTyped DEF Pairs, GrantsTypeOK, GrantCalls, GrantPcs, OwnPair
  <1>6. Numbered'
    <2>1. \A r \in Handlers : call'[r].pair <= Len(minted') /\ call'[r].delegate <= Len(minted')
      BY <1>1, <1>2, <1>3, GrantsTyped DEF Numbered
    <2>2. \A p \in DOMAIN minted' : minted'[p].delegate <= p
      BY <1>3 DEF Numbered
    <2>3. /\ \A d \in Pairs : row'[d] <= Len(minted') /\ (row'[d] # 0 => d <= Len(minted'))
          /\ \A p \in Pairs : p > Len(minted') => handed'[p] = 0
      BY <1>1, <1>3, GrantsTyped DEF Numbered
    <2>4. codes' \subseteq DOMAIN minted' /\ revoked' \subseteq DOMAIN minted'
      BY <1>1, <1>3, GrantsTyped DEF Numbered
    <2> QED
      BY <2>1, <2>2, <2>3, <2>4 DEF Numbered
  <1>7. OwnPair'
    <2>1. ASSUME NEW r \in Handlers
          PROVE  /\ call'[r].pair = call[r].pair /\ call'[r].delegate = call[r].delegate
                 /\ r = q => call'[r].pc = "answer"
                 /\ r # q => call'[r].pc = call[r].pc
      BY <1>2
    <2>2. call[q].pair # 0
      BY <1>3 DEF OwnPair
    <2> QED
      BY <1>3, <2>1, <2>2 DEF OwnPair
  <1>8. InsertsAreFirst'
    <2> SUFFICES ASSUME NEW r \in Handlers, call'[r].pc = "insert"
                 PROVE  /\ row'[call'[r].delegate] = 0 /\ call'[r].delegate \notin revoked'
                        /\ \A r2 \in Handlers : call'[r2].delegate = call'[r].delegate => r2 = r
      BY DEF InsertsAreFirst
    <2>1. r # q /\ call'[r] = call[r] /\ call[r].delegate \in Pairs
      BY <1>1, <1>2, GrantsTyped DEF OwnPair, Pairs
    <2>2. /\ row[call[r].delegate] = 0 /\ call[r].delegate \notin revoked
          /\ \A r2 \in Handlers : call[r2].delegate = call[r].delegate => r2 = r
      BY <2>1 DEF InsertsAreFirst
    <2> QED
      BY <1>2, <1>3, <2>1, <2>2 DEF Pairs
  <1>9. DeadStayDead'
    <2> SUFFICES ASSUME NEW d \in revoked' \ overtaken'
                 PROVE  row'[d] = 0 /\ \A r \in Handlers : call'[r].pc = "put" => call'[r].delegate # d
      BY DEF DeadStayDead
    <2>1. /\ d \in Pairs /\ d \in revoked /\ row[d] = 0
          /\ \A r \in Handlers : call[r].pc = "put" => call[r].delegate # d
      BY <1>1, <1>3 DEF GrantsTypeOK, DeadStayDead
    <2> QED
      BY <1>2, <1>3, <2>1 DEF InsertsAreFirst
  <1>10. OneHolder'
    <2>1. \A r \in Handlers, p \in DOMAIN minted : p # 0 /\ OneUse(p) /\ Carries(r, p)' => Carries(r, p)
      BY <1>1, <1>2, <1>3, GrantsTyped DEF Carries, OneUse, OwnPair
    <2>2. \A p \in DOMAIN minted' : p \in DOMAIN minted /\ p # 0 /\ OneUse(p)' = OneUse(p)
      BY <1>1, <1>3, GrantsTyped DEF OneUse, Pairs
    <2> QED
      BY <2>1, <2>2, <1>3 DEF OneHolder
  <1> QED
    BY <1>5, <1>6, <1>7, <1>8, <1>9, <1>10

LEMMA RevokeKeeps ==
  ASSUME GrantsInv, NEW q \in Handlers, RevokeRemove(q)
  PROVE  GrantsInv'
  <1> USE DEF GrantsInv, CallAt, Free
  <1>1. GrantsTypeOK
    OBVIOUS
  <1>2. /\ call' \in [Handlers -> GrantCalls]
        /\ call'[q].pc = "none" /\ call'[q].pair = 0 /\ call'[q].delegate = 0
        /\ \A r \in Handlers : r # q => call'[r] = call[r]
    BY <1>1, GrantsTyped, CallDone DEF RevokeRemove
  <1>3. /\ call[q].pc = "remove" /\ call[q].delegate \in 1..Len(minted)
        /\ row' \in [Pairs -> 0..MaxPairs]
        /\ \A d \in Pairs : row'[d] = IF d = call[q].delegate THEN 0 ELSE row[d]
        /\ UNCHANGED <<minted, codes, consents, asked, aged, handed>>
    BY <1>1, GrantsTyped DEF RevokeRemove, OwnPair, Numbered, GrantsTypeOK, Pairs
  <1>4. /\ revoked' = revoked \union {call[q].delegate}
        /\ overtaken \subseteq overtaken'
        /\ overtaken' \subseteq overtaken \union {call[q].delegate}
        /\ \A r \in Handlers :
             call[r].pc = "put" /\ call[r].delegate = call[q].delegate =>
               call[q].delegate \in overtaken'
    BY DEF RevokeRemove
  <1>5. GrantsTypeOK'
    BY <1>1, <1>2, <1>3, <1>4, GrantsTyped DEF Pairs, GrantsTypeOK, GrantCalls, GrantPcs, OwnPair
  <1>6. Numbered'
    <2>1. \A r \in Handlers : call'[r].pair <= Len(minted') /\ call'[r].delegate <= Len(minted')
      BY <1>1, <1>2, <1>3, GrantsTyped DEF Numbered
    <2>2. \A p \in DOMAIN minted' : minted'[p].delegate <= p
      BY <1>3 DEF Numbered
    <2>3. /\ \A d \in Pairs : row'[d] <= Len(minted') /\ (row'[d] # 0 => d <= Len(minted'))
          /\ \A p \in Pairs : p > Len(minted') => handed'[p] = 0
      BY <1>1, <1>3, GrantsTyped DEF Numbered
    <2>4. codes' \subseteq DOMAIN minted' /\ revoked' \subseteq DOMAIN minted'
      BY <1>1, <1>3, <1>4, GrantsTyped DEF Numbered
    <2> QED
      BY <2>1, <2>2, <2>3, <2>4 DEF Numbered
  <1>7. OwnPair'
    BY <1>1, <1>2, <1>3 DEF OwnPair
  <1>8. InsertsAreFirst'
    <2> SUFFICES ASSUME NEW r \in Handlers, call'[r].pc = "insert"
                 PROVE  /\ row'[call'[r].delegate] = 0 /\ call'[r].delegate \notin revoked'
                        /\ \A r2 \in Handlers : call'[r2].delegate = call'[r].delegate => r2 = r
      BY DEF InsertsAreFirst
    <2>1. r # q /\ call'[r] = call[r] /\ call[r].delegate \in Pairs
      BY <1>1, <1>2, GrantsTyped DEF OwnPair, Pairs
    <2>2. /\ row[call[r].delegate] = 0 /\ call[r].delegate \notin revoked
          /\ \A r2 \in Handlers : call[r2].delegate = call[r].delegate => r2 = r
      BY <2>1 DEF InsertsAreFirst
    <2> QED
      BY <1>2, <1>3, <1>4, <2>1, <2>2 DEF Pairs
  <1>9. DeadStayDead'
    <2> SUFFICES ASSUME NEW d \in revoked' \ overtaken'
                 PROVE  row'[d] = 0 /\ \A r \in Handlers : call'[r].pc = "put" => call'[r].delegate # d
      BY DEF DeadStayDead
    <2>1. d \in Pairs
      BY <1>1, <1>3, <1>4, GrantsTyped DEF GrantsTypeOK, Pairs
    <2>2. CASE d = call[q].delegate
      BY <1>2, <1>3, <1>4, <2>1, <2>2
    <2>3. CASE d # call[q].delegate
      BY <1>2, <1>3, <1>4, <2>1, <2>3 DEF DeadStayDead
    <2> QED
      BY <2>2, <2>3
  <1>10. OneHolder'
    <2>1. \A r \in Handlers, p \in DOMAIN minted : p # 0 /\ OneUse(p) /\ Carries(r, p)' => Carries(r, p)
      BY <1>1, <1>2, <1>3, GrantsTyped DEF Carries, OneUse, OwnPair
    <2>2. \A p \in DOMAIN minted' : p \in DOMAIN minted /\ p # 0 /\ OneUse(p)' = OneUse(p)
      BY <1>1, <1>3, GrantsTyped DEF OneUse, Pairs
    <2> QED
      BY <2>1, <2>2, <1>3 DEF OneHolder
  <1> QED
    BY <1>5, <1>6, <1>7, <1>8, <1>9, <1>10

(* A renewal writes its pair into a row that is there or that it has read. *)
LEMMA WriteKeeps ==
  ASSUME GrantsInv, NEW q \in Handlers, call[q].pc \in {"get", "put"},
         Becomes(q, "answer", call[q].pair, call[q].delegate),
         \/ row' = row
         \/ /\ call[q].pc = "put" \/ row[call[q].delegate] # 0
            /\ row' = [row EXCEPT ![call[q].delegate] = call[q].pair],
         UNCHANGED <<minted, codes, consents, asked, aged, handed, revoked, overtaken>>
  PROVE  GrantsInv'
  <1> USE DEF GrantsInv, CallAt, Free
  <1>1. GrantsTypeOK
    OBVIOUS
  <1>2. /\ call' \in [Handlers -> GrantCalls]
        /\ call'[q].pc = "answer" /\ call'[q].pair = call[q].pair /\ call'[q].delegate = call[q].delegate
        /\ \A r \in Handlers : r # q => call'[r] = call[r]
    BY <1>1, GrantsTyped, CallAfter DEF GrantPcs
  <1>3. /\ row' \in [Pairs -> 0..MaxPairs]
        /\ \A d \in Pairs :
             row'[d] # row[d] => /\ d = call[q].delegate
                                 /\ call[q].pc = "put" \/ row[d] # 0
                                 /\ row'[d] = call[q].pair
        /\ UNCHANGED <<minted, codes, consents, asked, aged, handed, revoked, overtaken>>
    BY <1>1, GrantsTyped DEF GrantsTypeOK, Pairs
  <1>5. GrantsTypeOK'
    BY <1>1, <1>2, <1>3, GrantsTyped DEF Pairs, GrantsTypeOK, GrantCalls, GrantPcs, OwnPair
  <1>6. Numbered'
    BY <1>1, <1>2, <1>3, GrantsTyped DEF Pairs, Numbered, OwnPair
  <1>7. OwnPair'
    <2>1. ASSUME NEW r \in Handlers
          PROVE  /\ call'[r].pair = call[r].pair /\ call'[r].delegate = call[r].delegate
                 /\ r = q => call'[r].pc = "answer"
                 /\ r # q => call'[r].pc = call[r].pc
      BY <1>2
    <2>2. call[q].pair # 0
      BY DEF OwnPair
    <2> QED
      BY <1>3, <2>1, <2>2 DEF OwnPair
  <1>8. InsertsAreFirst'
    <2> SUFFICES ASSUME NEW r \in Handlers, call'[r].pc = "insert"
                 PROVE  /\ row'[call'[r].delegate] = 0 /\ call'[r].delegate \notin revoked'
                        /\ \A r2 \in Handlers : call'[r2].delegate = call'[r].delegate => r2 = r
      BY DEF InsertsAreFirst
    <2>1. r # q /\ call'[r] = call[r] /\ call[r].delegate \in Pairs
      BY <1>1, <1>2, GrantsTyped DEF OwnPair, Pairs
    <2>2. /\ row[call[r].delegate] = 0 /\ call[r].delegate \notin revoked
          /\ \A r2 \in Handlers : call[r2].delegate = call[r].delegate => r2 = r
      BY <2>1 DEF InsertsAreFirst
    <2> QED
      BY <1>2, <1>3, <2>1, <2>2 DEF Pairs
  <1>9. DeadStayDead'
    <2> SUFFICES ASSUME NEW d \in revoked \ overtaken
                 PROVE  row'[d] = 0 /\ \A r \in Handlers : call'[r].pc = "put" => call'[r].delegate # d
      BY <1>3 DEF DeadStayDead
    <2>1. /\ d \in Pairs /\ row[d] = 0
          /\ \A r \in Handlers : call[r].pc = "put" => call[r].delegate # d
      BY <1>1 DEF GrantsTypeOK, DeadStayDead
    <2> QED
      BY <1>2, <1>3, <2>1
  <1>10. OneHolder'
    <2>1. \A r \in Handlers, p \in DOMAIN minted : p # 0 /\ OneUse(p) /\ Carries(r, p)' => Carries(r, p)
      BY <1>1, <1>2, <1>3, GrantsTyped DEF Carries, OneUse, OwnPair
    <2>2. \A p \in DOMAIN minted' : p \in DOMAIN minted /\ p # 0 /\ OneUse(p)' = OneUse(p)
      BY <1>1, <1>3, GrantsTyped DEF OneUse, Pairs
    <2> QED
      BY <2>1, <2>2, <1>3 DEF OneHolder
  <1> QED
    BY <1>5, <1>6, <1>7, <1>8, <1>9, <1>10

(* A request ends, and changes nothing else. *)
LEMMA DropKeeps ==
  ASSUME GrantsInv, NEW q \in Handlers, Done(q),
         UNCHANGED <<minted, row, codes, consents, asked, aged, handed, revoked, overtaken>>
  PROVE  GrantsInv'
  <1> USE DEF GrantsInv, CallAt, Free
  <1>1. GrantsTypeOK
    OBVIOUS
  <1>2. /\ call' \in [Handlers -> GrantCalls]
        /\ call'[q].pc = "none" /\ call'[q].pair = 0 /\ call'[q].delegate = 0
        /\ \A r \in Handlers : r # q => call'[r] = call[r]
    BY <1>1, GrantsTyped, CallDone DEF GrantPcs
  <1>3. UNCHANGED <<minted, row, codes, consents, asked, aged, handed, revoked, overtaken>>
    OBVIOUS
  <1>5. GrantsTypeOK'
    BY <1>1, <1>2, <1>3, GrantsTyped DEF Pairs, GrantsTypeOK, GrantCalls, GrantPcs, OwnPair
  <1>6. Numbered'
    BY <1>1, <1>2, <1>3, GrantsTyped DEF Pairs, Numbered, OwnPair
  <1>7. OwnPair'
    BY <1>1, <1>2, <1>3, GrantsTyped DEF Pairs, OwnPair
  <1>8. InsertsAreFirst'
    <2> SUFFICES ASSUME NEW r \in Handlers, call'[r].pc = "insert"
                 PROVE  /\ row'[call'[r].delegate] = 0 /\ call'[r].delegate \notin revoked'
                        /\ \A r2 \in Handlers : call'[r2].delegate = call'[r].delegate => r2 = r
      BY DEF InsertsAreFirst
    <2>1. r # q /\ call'[r] = call[r] /\ call[r].delegate \in Pairs
      BY <1>1, <1>2, GrantsTyped DEF OwnPair, Pairs
    <2>2. /\ row[call[r].delegate] = 0 /\ call[r].delegate \notin revoked
          /\ \A r2 \in Handlers : call[r2].delegate = call[r].delegate => r2 = r
      BY <2>1 DEF InsertsAreFirst
    <2> QED
      BY <1>2, <1>3, <2>1, <2>2 DEF Pairs
  <1>9. DeadStayDead'
    <2> SUFFICES ASSUME NEW d \in revoked' \ overtaken'
                 PROVE  row'[d] = 0 /\ \A r \in Handlers : call'[r].pc = "put" => call'[r].delegate # d
      BY DEF DeadStayDead
    <2>1. /\ d \in Pairs /\ d \in revoked /\ row[d] = 0
          /\ \A r \in Handlers : call[r].pc = "put" => call[r].delegate # d
      BY <1>1, <1>3 DEF GrantsTypeOK, DeadStayDead
    <2> QED
      BY <1>2, <1>3, <2>1 DEF InsertsAreFirst
  <1>10. OneHolder'
    <2>1. \A r \in Handlers, p \in DOMAIN minted : p # 0 /\ OneUse(p) /\ Carries(r, p)' => Carries(r, p)
      BY <1>1, <1>2, <1>3, GrantsTyped DEF Carries, OneUse, OwnPair
    <2>2. \A p \in DOMAIN minted' : p \in DOMAIN minted /\ p # 0 /\ OneUse(p)' = OneUse(p)
      BY <1>1, <1>3, GrantsTyped DEF OneUse, Pairs
    <2> QED
      BY <2>1, <2>2, <1>3 DEF OneHolder
  <1> QED
    BY <1>5, <1>6, <1>7, <1>8, <1>9, <1>10

(* A request reads a row: a renewal, or a revocation that finds its delegate. *)
LEMMA ReadKeeps ==
  ASSUME GrantsInv, NEW q \in Handlers, NEW s \in {"put", "remove"},
         NEW p \in 0..MaxPairs, NEW d \in Pairs, row[d] # 0, p <= Len(minted),
         s = "put" => call[q].pc = "get" /\ p = call[q].pair /\ d = call[q].delegate,
         Becomes(q, s, p, d),
         UNCHANGED <<minted, row, codes, consents, asked, aged, handed, revoked, overtaken>>
  PROVE  GrantsInv'
  <1> USE DEF GrantsInv, CallAt, Free
  <1>1. GrantsTypeOK
    OBVIOUS
  <1>2. /\ call' \in [Handlers -> GrantCalls]
        /\ call'[q].pc = s /\ call'[q].pair = p /\ call'[q].delegate = d
        /\ \A r \in Handlers : r # q => call'[r] = call[r]
    BY <1>1, GrantsTyped, CallAfter DEF GrantPcs, Pairs
  <1>3. UNCHANGED <<minted, row, codes, consents, asked, aged, handed, revoked, overtaken>>
    OBVIOUS
  <1>5. GrantsTypeOK'
    BY <1>1, <1>2, <1>3, GrantsTyped DEF Pairs, GrantsTypeOK, GrantCalls, GrantPcs, OwnPair
  <1>6. Numbered'
    BY <1>1, <1>2, <1>3, GrantsTyped DEF Pairs, Numbered, OwnPair
  <1>7. OwnPair'
    BY <1>1, <1>2, <1>3, GrantsTyped DEF Pairs, OwnPair
  <1>8. InsertsAreFirst'
    <2> SUFFICES ASSUME NEW r \in Handlers, call'[r].pc = "insert"
                 PROVE  /\ row'[call'[r].delegate] = 0 /\ call'[r].delegate \notin revoked'
                        /\ \A r2 \in Handlers : call'[r2].delegate = call'[r].delegate => r2 = r
      BY DEF InsertsAreFirst
    <2>1. r # q /\ call'[r] = call[r] /\ call[r].delegate \in Pairs
      BY <1>1, <1>2, GrantsTyped DEF OwnPair, Pairs
    <2>2. /\ row[call[r].delegate] = 0 /\ call[r].delegate \notin revoked
          /\ \A r2 \in Handlers : call[r2].delegate = call[r].delegate => r2 = r
      BY <2>1 DEF InsertsAreFirst
    <2> QED
      BY <1>2, <1>3, <2>1, <2>2 DEF Pairs
  <1>9. DeadStayDead'
    <2> SUFFICES ASSUME NEW e \in revoked' \ overtaken'
                 PROVE  row'[e] = 0 /\ \A r \in Handlers : call'[r].pc = "put" => call'[r].delegate # e
      BY DEF DeadStayDead
    <2>1. /\ e \in Pairs /\ e \in revoked /\ row[e] = 0
          /\ \A r \in Handlers : call[r].pc = "put" => call[r].delegate # e
      BY <1>1, <1>3 DEF GrantsTypeOK, DeadStayDead
    <2> QED
      BY <1>2, <1>3, <2>1 DEF InsertsAreFirst
  <1>10. OneHolder'
    <2>1. \A r \in Handlers, u \in DOMAIN minted : u # 0 /\ OneUse(u) /\ Carries(r, u)' => Carries(r, u)
      BY <1>1, <1>2, <1>3, GrantsTyped DEF Carries, OneUse, OwnPair
    <2>2. \A u \in DOMAIN minted' : u \in DOMAIN minted /\ u # 0 /\ OneUse(u)' = OneUse(u)
      BY <1>1, <1>3, GrantsTyped DEF OneUse, Pairs
    <2> QED
      BY <2>1, <2>2, <1>3 DEF OneHolder
  <1> QED
    BY <1>5, <1>6, <1>7, <1>8, <1>9, <1>10

LEMMA GetKeeps ==
  ASSUME GrantsInv, NEW q \in Handlers, UpdateGet(q)
  PROVE  GrantsInv'
  <1>1. call[q].pair \in 0..MaxPairs /\ call[q].delegate \in 0..MaxPairs
    BY GrantsTyped DEF GrantsInv
  <1>2. CASE row[call[q].delegate] = 0 /\ Dynamo
    BY <1>2, DropKeeps DEF UpdateGet
  <1>3. CASE row[call[q].delegate] # 0 /\ Dynamo
    <2>1. /\ call[q].pc = "get" /\ Becomes(q, "put", call[q].pair, call[q].delegate)
          /\ UNCHANGED <<minted, row, codes, consents, asked, aged, handed, revoked, overtaken>>
      BY <1>3 DEF UpdateGet, CallAt
    <2>2. call[q].delegate \in Pairs /\ call[q].pair <= Len(minted)
      BY <1>1, <2>1 DEF GrantsInv, OwnPair, Numbered, Pairs
    <2> QED
      BY <1>1, <1>3, <2>1, <2>2, ReadKeeps
  <1>4. CASE ~Dynamo
    BY <1>4, WriteKeeps DEF UpdateGet, CallAt
  <1> QED
    BY <1>2, <1>3, <1>4

(* A request answers with its pair: it leaves no code of it behind. *)
LEMMA GiveKeeps ==
  ASSUME GrantsInv, NEW q \in Handlers, call[q].pc \in {"answer", "verify"},
         Done(q), Hand(call[q].pair), codes' \subseteq codes,
         UNCHANGED <<minted, row, consents, asked, aged, revoked, overtaken>>
  PROVE  GrantsInv'
  <1> USE DEF GrantsInv, CallAt, Free
  <1>1. GrantsTypeOK
    OBVIOUS
  <1>2. /\ call' \in [Handlers -> GrantCalls]
        /\ call'[q].pc = "none" /\ call'[q].pair = 0 /\ call'[q].delegate = 0
        /\ \A r \in Handlers : r # q => call'[r] = call[r]
    BY <1>1, CallDone DEF GrantPcs
  <1>3. /\ call[q].pair \in 1..Len(minted) /\ codes' \subseteq codes
        /\ handed' \in [Pairs -> Nat] /\ handed'[call[q].pair] = handed[call[q].pair] + 1
        /\ \A p \in Pairs : p # call[q].pair => handed'[p] = handed[p]
        /\ UNCHANGED <<minted, row, consents, asked, aged, revoked, overtaken>>
    <2>1. call[q].pair \in 1..Len(minted)
      BY <1>1, GrantsTyped DEF OwnPair, Numbered
    <2>2. handed \in [Pairs -> Nat] /\ call[q].pair \in Pairs
      BY <1>1, <2>1, GrantsTyped DEF GrantsTypeOK, Pairs
    <2>3. handed' = [handed EXCEPT ![call[q].pair] = handed[call[q].pair] + 1]
      BY DEF Hand
    <2> QED
      BY <2>1, <2>2, <2>3
  <1>5. GrantsTypeOK'
    BY <1>1, <1>2, <1>3, GrantsTyped DEF Pairs, GrantsTypeOK, GrantCalls, GrantPcs, OwnPair
  <1>6. Numbered'
    <2>1. \A r \in Handlers : call'[r].pair <= Len(minted') /\ call'[r].delegate <= Len(minted')
      BY <1>1, <1>2, <1>3, GrantsTyped DEF Numbered
    <2>2. \A p \in DOMAIN minted' : minted'[p].delegate <= p
      BY <1>3 DEF Numbered
    <2>3. /\ \A d \in Pairs : row'[d] <= Len(minted') /\ (row'[d] # 0 => d <= Len(minted'))
          /\ \A p \in Pairs : p > Len(minted') => handed'[p] = 0
      BY <1>1, <1>3, GrantsTyped DEF Numbered
    <2>4. codes' \subseteq DOMAIN minted' /\ revoked' \subseteq DOMAIN minted'
      BY <1>1, <1>3, GrantsTyped DEF Numbered
    <2> QED
      BY <2>1, <2>2, <2>3, <2>4 DEF Numbered
  <1>7. OwnPair'
    <2>1. ASSUME NEW r \in Handlers
          PROVE  /\ r = q => call'[r].pc = "none" /\ call'[r].pair = 0 /\ call'[r].delegate = 0
                 /\ r # q => call'[r] = call[r]
      BY <1>2
    <2> QED
      BY <1>3, <2>1 DEF OwnPair
  <1>8. InsertsAreFirst'
    <2> SUFFICES ASSUME NEW r \in Handlers, call'[r].pc = "insert"
                 PROVE  /\ row'[call'[r].delegate] = 0 /\ call'[r].delegate \notin revoked'
                        /\ \A r2 \in Handlers : call'[r2].delegate = call'[r].delegate => r2 = r
      BY DEF InsertsAreFirst
    <2>1. r # q /\ call'[r] = call[r] /\ call[r].delegate \in Pairs
      BY <1>1, <1>2, GrantsTyped DEF OwnPair, Pairs
    <2>2. /\ row[call[r].delegate] = 0 /\ call[r].delegate \notin revoked
          /\ \A r2 \in Handlers : call[r2].delegate = call[r].delegate => r2 = r
      BY <2>1 DEF InsertsAreFirst
    <2> QED
      BY SMTT(30), <1>2, <1>3, <2>1, <2>2 DEF Pairs
  <1>9. DeadStayDead'
    <2> SUFFICES ASSUME NEW d \in revoked' \ overtaken'
                 PROVE  row'[d] = 0 /\ \A r \in Handlers : call'[r].pc = "put" => call'[r].delegate # d
      BY DEF DeadStayDead
    <2>1. /\ d \in Pairs /\ d \in revoked /\ row[d] = 0
          /\ \A r \in Handlers : call[r].pc = "put" => call[r].delegate # d
      BY <1>1, <1>3 DEF GrantsTypeOK, DeadStayDead
    <2> QED
      BY <1>2, <1>3, <2>1 DEF InsertsAreFirst
  <1>10. OneHolder'
    <2> SUFFICES ASSUME NEW p \in DOMAIN minted, OneUse(p)
                 PROVE  /\ handed'[p] <= 1
                        /\ p \in codes' => handed'[p] = 0 /\ \A r \in Handlers : ~Carries(r, p)'
                        /\ \A r \in Handlers : Carries(r, p)' =>
                             handed'[p] = 0 /\ \A r2 \in Handlers : Carries(r2, p)' => r2 = r
      BY <1>3 DEF OneHolder, OneUse
    <2>1. p \in Pairs /\ p # 0
      BY <1>1, GrantsTyped DEF Pairs
    <2>2. /\ ~Carries(q, p)'
          /\ \A r \in Handlers : r # q => Carries(r, p)' = Carries(r, p)
      BY <1>2, <2>1 DEF Carries
    <2>3. CASE p = call[q].pair
      <3>1. Carries(q, p)
        BY <2>3 DEF Carries
      <3> QED
        BY <1>3, <2>2, <2>3, <3>1 DEF OneHolder
    <2>4. CASE p # call[q].pair
      BY <1>3, <2>1, <2>2, <2>4 DEF OneHolder
    <2> QED
      BY <2>3, <2>4
  <1> QED
    BY <1>5, <1>6, <1>7, <1>8, <1>9, <1>10

(* A request ends in a code for its pair. *)
LEMMA CodeKeeps ==
  ASSUME GrantsInv, NEW q \in Handlers, call[q].pc = "answer",
         Done(q), codes' = codes \union {call[q].pair},
         UNCHANGED <<minted, row, consents, asked, aged, handed, revoked, overtaken>>
  PROVE  GrantsInv'
  <1> USE DEF GrantsInv, CallAt, Free
  <1>1. GrantsTypeOK
    OBVIOUS
  <1>2. /\ call' \in [Handlers -> GrantCalls]
        /\ call'[q].pc = "none" /\ call'[q].pair = 0 /\ call'[q].delegate = 0
        /\ \A r \in Handlers : r # q => call'[r] = call[r]
    BY <1>1, CallDone DEF GrantPcs
  <1>3. /\ call[q].pair \in 1..Len(minted) /\ codes' = codes \union {call[q].pair}
        /\ UNCHANGED <<minted, row, consents, asked, aged, handed, revoked, overtaken>>
    BY <1>1, GrantsTyped DEF OwnPair, Numbered
  <1>5. GrantsTypeOK'
    BY <1>1, <1>2, <1>3, GrantsTyped DEF Pairs, GrantsTypeOK, GrantCalls, GrantPcs, OwnPair
  <1>6. Numbered'
    BY <1>1, <1>2, <1>3, GrantsTyped DEF Pairs, Numbered, OwnPair
  <1>7. OwnPair'
    BY <1>1, <1>2, <1>3, GrantsTyped DEF Pairs, OwnPair
  <1>8. InsertsAreFirst'
    <2> SUFFICES ASSUME NEW r \in Handlers, call'[r].pc = "insert"
                 PROVE  /\ row'[call'[r].delegate] = 0 /\ call'[r].delegate \notin revoked'
                        /\ \A r2 \in Handlers : call'[r2].delegate = call'[r].delegate => r2 = r
      BY DEF InsertsAreFirst
    <2>1. r # q /\ call'[r] = call[r] /\ call[r].delegate \in Pairs
      BY <1>1, <1>2, GrantsTyped DEF OwnPair, Pairs
    <2>2. /\ row[call[r].delegate] = 0 /\ call[r].delegate \notin revoked
          /\ \A r2 \in Handlers : call[r2].delegate = call[r].delegate => r2 = r
      BY <2>1 DEF InsertsAreFirst
    <2> QED
      BY <1>2, <1>3, <2>1, <2>2 DEF Pairs
  <1>9. DeadStayDead'
    <2> SUFFICES ASSUME NEW d \in revoked' \ overtaken'
                 PROVE  row'[d] = 0 /\ \A r \in Handlers : call'[r].pc = "put" => call'[r].delegate # d
      BY DEF DeadStayDead
    <2>1. /\ d \in Pairs /\ d \in revoked /\ row[d] = 0
          /\ \A r \in Handlers : call[r].pc = "put" => call[r].delegate # d
      BY <1>1, <1>3 DEF GrantsTypeOK, DeadStayDead
    <2> QED
      BY <1>2, <1>3, <2>1 DEF InsertsAreFirst
  <1>10. OneHolder'
    <2> SUFFICES ASSUME NEW p \in DOMAIN minted, OneUse(p)
                 PROVE  /\ handed'[p] <= 1
                        /\ p \in codes' => handed'[p] = 0 /\ \A r \in Handlers : ~Carries(r, p)'
                        /\ \A r \in Handlers : Carries(r, p)' =>
                             handed'[p] = 0 /\ \A r2 \in Handlers : Carries(r2, p)' => r2 = r
      BY <1>3 DEF OneHolder, OneUse
    <2>1. p \in Pairs /\ p # 0
      BY <1>1, GrantsTyped DEF Pairs
    <2>2. /\ ~Carries(q, p)'
          /\ \A r \in Handlers : r # q => Carries(r, p)' = Carries(r, p)
      BY <1>2, <2>1 DEF Carries
    <2>3. p = call[q].pair => Carries(q, p)
      BY DEF Carries
    <2> QED
      BY <1>3, <2>1, <2>2, <2>3 DEF OneHolder
  <1> QED
    BY <1>5, <1>6, <1>7, <1>8, <1>9, <1>10

(* A request looks at a code; the OAuth server takes it away as it does. *)
LEMMA LookKeeps ==
  ASSUME GrantsInv, NEW q \in Handlers, Free(q), NEW p \in codes,
         Becomes(q, "verify", p, 0), codes' \subseteq codes, OneUse(p) => p \notin codes',
         consents' \subseteq consents,
         UNCHANGED <<minted, row, asked, aged, handed, revoked, overtaken>>
  PROVE  GrantsInv'
  <1> USE DEF GrantsInv, CallAt, Free
  <1>a. p \in 0..MaxPairs /\ 0 \in 0..MaxPairs
    BY DEF GrantsTypeOK, Pairs
  <1>1. GrantsTypeOK
    OBVIOUS
  <1>2. /\ call' \in [Handlers -> GrantCalls]
        /\ call'[q].pc = "verify" /\ call'[q].pair = p /\ call'[q].delegate = 0
        /\ \A r \in Handlers : r # q => call'[r] = call[r]
    BY <1>1, CallAfter, <1>a DEF GrantPcs
  <1>3. /\ p \in 1..Len(minted) /\ codes' \subseteq codes /\ consents' \subseteq consents
        /\ UNCHANGED <<minted, row, asked, aged, handed, revoked, overtaken>>
    BY <1>1, GrantsTyped DEF Numbered
  <1>5. GrantsTypeOK'
    BY <1>1, <1>2, <1>3, GrantsTyped DEF Pairs, GrantsTypeOK, GrantCalls, GrantPcs, OwnPair
  <1>6. Numbered'
    <2>1. \A r \in Handlers : call'[r].pair <= Len(minted') /\ call'[r].delegate <= Len(minted')
      BY <1>1, <1>2, <1>3, GrantsTyped DEF Numbered
    <2>2. \A u \in DOMAIN minted' : minted'[u].delegate <= u
      BY <1>3 DEF Numbered
    <2>3. /\ \A d \in Pairs : row'[d] <= Len(minted') /\ (row'[d] # 0 => d <= Len(minted'))
          /\ \A u \in Pairs : u > Len(minted') => handed'[u] = 0
      BY <1>1, <1>3, GrantsTyped DEF Numbered
    <2>4. codes' \subseteq DOMAIN minted' /\ revoked' \subseteq DOMAIN minted'
      BY <1>1, <1>3, GrantsTyped DEF Numbered
    <2> QED
      BY <2>1, <2>2, <2>3, <2>4 DEF Numbered
  <1>7. OwnPair'
    BY <1>1, <1>2, <1>3, GrantsTyped DEF Pairs, OwnPair
  <1>8. InsertsAreFirst'
    <2> SUFFICES ASSUME NEW r \in Handlers, call'[r].pc = "insert"
                 PROVE  /\ row'[call'[r].delegate] = 0 /\ call'[r].delegate \notin revoked'
                        /\ \A r2 \in Handlers : call'[r2].delegate = call'[r].delegate => r2 = r
      BY DEF InsertsAreFirst
    <2>1. r # q /\ call'[r] = call[r] /\ call[r].delegate \in Pairs
      BY <1>1, <1>2, GrantsTyped DEF OwnPair, Pairs
    <2>2. /\ row[call[r].delegate] = 0 /\ call[r].delegate \notin revoked
          /\ \A r2 \in Handlers : call[r2].delegate = call[r].delegate => r2 = r
      BY <2>1 DEF InsertsAreFirst
    <2> QED
      BY <1>2, <1>3, <2>1, <2>2 DEF Pairs
  <1>9. DeadStayDead'
    <2> SUFFICES ASSUME NEW d \in revoked' \ overtaken'
                 PROVE  row'[d] = 0 /\ \A r \in Handlers : call'[r].pc = "put" => call'[r].delegate # d
      BY DEF DeadStayDead
    <2>1. /\ d \in Pairs /\ d \in revoked /\ row[d] = 0
          /\ \A r \in Handlers : call[r].pc = "put" => call[r].delegate # d
      BY <1>1, <1>3 DEF GrantsTypeOK, DeadStayDead
    <2> QED
      BY <1>2, <1>3, <2>1 DEF InsertsAreFirst
  <1>10. OneHolder'
    <2> SUFFICES ASSUME NEW x \in DOMAIN minted, OneUse(x)
                 PROVE  /\ handed'[x] <= 1
                        /\ x \in codes' => handed'[x] = 0 /\ \A r \in Handlers : ~Carries(r, x)'
                        /\ \A r \in Handlers : Carries(r, x)' =>
                             handed'[x] = 0 /\ \A r2 \in Handlers : Carries(r2, x)' => r2 = r
      BY <1>3 DEF OneHolder, OneUse
    <2>1. /\ Carries(q, x)' <=> x = p
          /\ \A r \in Handlers : r # q => Carries(r, x)' = Carries(r, x)
      BY <1>2 DEF Carries
    <2> QED
      BY <1>3, <2>1 DEF OneHolder
  <1> QED
    BY <1>5, <1>6, <1>7, <1>8, <1>9, <1>10

(* Codes and consents lapse or are asked for. *)
LEMMA LapseKeeps ==
  ASSUME GrantsInv, codes' \subseteq codes, consents' \subseteq asked', asked' \subseteq Consents,
         aged' \subseteq Pairs \union Consents,
         UNCHANGED <<minted, row, call, handed, revoked, overtaken>>
  PROVE  GrantsInv'
  <1>1. GrantsTypeOK' /\ Numbered' /\ OwnPair'
    BY DEF GrantsInv, GrantsTypeOK, Numbered, OwnPair, CallAt
  <1>2. InsertsAreFirst' /\ DeadStayDead'
    BY DEF GrantsInv, InsertsAreFirst, DeadStayDead, CallAt
  <1>3. OneHolder'
    BY DEF GrantsInv, OneHolder, OneUse, Carries
  <1> QED
    BY <1>1, <1>2, <1>3 DEF GrantsInv

(* A code for Cognito's tokens: the pair and its code come at once. *)
LEMMA UserCodeKeeps ==
  ASSUME GrantsInv, UserCode
  PROVE  GrantsInv'
  <1> USE DEF GrantsInv, CallAt
  <1>1. GrantsTypeOK
    OBVIOUS
  <1>2. /\ minted' \in Seq([delegate : 0..MaxPairs, by : Issuers])
        /\ Len(minted') = Len(minted) + 1 /\ Len(minted) < MaxPairs
        /\ DOMAIN minted' = 1..(Len(minted) + 1) /\ NewPair = Len(minted) + 1
        /\ NewPair \in Pairs
        /\ minted'[NewPair].delegate = 0
        /\ \A p \in DOMAIN minted : minted'[p] = minted[p]
    <2>1. Mint(0, "oauth") /\ 0 \in 0..MaxPairs /\ "oauth" \in Issuers
      BY DEF UserCode, Issuers
    <2> QED
      BY <1>1, <2>1, MintAdds
  <1>3. /\ codes' \subseteq codes \union {NewPair} /\ consents' \subseteq consents
        /\ UNCHANGED <<row, asked, aged, call, handed, revoked, overtaken>>
    BY DEF UserCode, Sweep
  <1>5. GrantsTypeOK'
    <2>1. codes' \subseteq Pairs
      BY <1>1, <1>2, <1>3 DEF GrantsTypeOK
    <2>2. Len(minted') <= MaxPairs
      BY <1>1, <1>2, GrantsTyped
    <2> QED
      BY <1>1, <1>2, <1>3, <2>1, <2>2 DEF GrantsTypeOK
  <1>6. Numbered'
    <2>1. \A p \in DOMAIN minted' : minted'[p].delegate <= p
      BY <1>1, <1>2, GrantsTyped DEF Numbered
    <2>2. /\ \A d \in Pairs : row'[d] <= Len(minted') /\ (row'[d] # 0 => d <= Len(minted'))
          /\ \A p \in Pairs : p > Len(minted') => handed'[p] = 0
          /\ \A r \in Handlers : call'[r].pair <= Len(minted') /\ call'[r].delegate <= Len(minted')
      BY <1>1, <1>2, <1>3, GrantsTyped DEF Numbered, Pairs
    <2>3. codes' \subseteq DOMAIN minted' /\ revoked' \subseteq DOMAIN minted'
      BY <1>1, <1>2, <1>3, GrantsTyped DEF Numbered
    <2> QED
      BY <2>1, <2>2, <2>3 DEF Numbered
  <1>7. OwnPair'
    BY <1>1, <1>2, <1>3, GrantsTyped DEF OwnPair, Numbered
  <1>8. InsertsAreFirst' /\ DeadStayDead'
    BY <1>3 DEF InsertsAreFirst, DeadStayDead
  <1>9. OneHolder'
    <2>1. /\ \A r \in Handlers, p \in DOMAIN minted' : Carries(r, p)' = Carries(r, p)
          /\ \A p \in DOMAIN minted : OneUse(p)' = OneUse(p)
      BY <1>2, <1>3 DEF Carries, OneUse
    <2>2. NewPair \in Pairs /\ handed[NewPair] = 0 /\ \A r \in Handlers : call[r].pair # NewPair
      BY <1>1, <1>2, GrantsTyped DEF Numbered, Pairs
    <2>4. handed'[NewPair] = 0 /\ \A r \in Handlers : call'[r].pair # NewPair
      BY <1>3, <2>2
    <2>3. \A p \in DOMAIN minted' : p = NewPair \/ (p \in DOMAIN minted /\ (p \in codes' => p \in codes))
      BY <1>1, <1>2, <1>3, GrantsTyped
    <2> QED
      BY <1>3, <1>2, <2>1, <2>2, <2>3, <2>4 DEF OneHolder, Carries
  <1> QED
    BY <1>5, <1>6, <1>7, <1>8, <1>9

(* A request mints a pair: the first one of its delegate, or a later one. *)
LEMMA MintKeeps ==
  ASSUME GrantsInv, NEW q \in Handlers, Free(q), NEW i \in Issuers,
         NEW d \in Pairs, NEW s \in {"insert", "get"}, Mint(d, i), Becomes(q, s, NewPair, d),
         s = "insert" => d = NewPair,
         s = "get" => row[d] # 0 /\ d <= Len(minted),
         codes' \subseteq codes, consents' \subseteq consents,
         UNCHANGED <<row, asked, aged, handed, revoked, overtaken>>
  PROVE  GrantsInv'
  <1> USE DEF GrantsInv, CallAt, Free
  <1>1. GrantsTypeOK
    OBVIOUS
  <1>0. /\ minted' \in Seq([delegate : 0..MaxPairs, by : Issuers])
        /\ Len(minted') = Len(minted) + 1 /\ Len(minted) < MaxPairs
        /\ DOMAIN minted' = 1..(Len(minted) + 1) /\ NewPair \in Pairs
        /\ NewPair = Len(minted) + 1 /\ minted'[NewPair].delegate = d
        /\ \A p \in DOMAIN minted : minted'[p] = minted[p]
    <2>1. d \in 0..MaxPairs
      BY DEF Pairs
    <2> QED
      BY <1>1, <2>1, MintAdds
  <1>2. /\ call' \in [Handlers -> GrantCalls]
        /\ call'[q].pc = s /\ call'[q].pair = NewPair /\ call'[q].delegate = d
        /\ \A r \in Handlers : r # q => call'[r] = call[r]
    <2>1. NewPair \in 0..MaxPairs /\ d \in 0..MaxPairs /\ s \in GrantPcs
      BY <1>0 DEF Pairs, GrantPcs
    <2> QED
      BY <1>1, <2>1, CallAfter
  <1>3. /\ codes' \subseteq codes /\ consents' \subseteq consents
        /\ UNCHANGED <<row, asked, aged, handed, revoked, overtaken>>
    OBVIOUS
  <1>4. /\ d <= Len(minted') /\ \A p \in DOMAIN minted : p # NewPair /\ p \in DOMAIN minted'
        /\ \A p \in DOMAIN minted' : p = NewPair \/ p \in DOMAIN minted
    BY <1>0, <1>1, GrantsTyped DEF Pairs
  <1>5. GrantsTypeOK'
    <2>1. Len(minted') <= MaxPairs
      BY <1>0, <1>1, GrantsTyped
    <2> QED
      BY <1>0, <1>1, <1>2, <1>3, <2>1 DEF GrantsTypeOK, GrantCalls, GrantPcs
  <1>6. Numbered'
    <2>1. \A p \in DOMAIN minted' : minted'[p].delegate <= p
      BY <1>0, <1>1, <1>4, GrantsTyped DEF Numbered, Pairs
    <2>2. /\ \A x \in Pairs : row'[x] <= Len(minted') /\ (row'[x] # 0 => x <= Len(minted'))
          /\ \A p \in Pairs : p > Len(minted') => handed'[p] = 0
      BY <1>0, <1>1, <1>3, GrantsTyped DEF Numbered, Pairs
    <2>3. \A r \in Handlers : call'[r].pair <= Len(minted') /\ call'[r].delegate <= Len(minted')
      BY <1>0, <1>1, <1>2, <1>4, GrantsTyped DEF Numbered
    <2>4. codes' \subseteq DOMAIN minted' /\ revoked' \subseteq DOMAIN minted'
      BY <1>1, <1>3, <1>4, GrantsTyped DEF Numbered
    <2> QED
      BY <2>1, <2>2, <2>3, <2>4 DEF Numbered
  <1>7. OwnPair'
    <2> SUFFICES ASSUME NEW r \in Handlers
                 PROVE  /\ call'[r].pc \notin {"none", "remove"} => call'[r].pair # 0
                        /\ call'[r].pc \in {"get", "put", "remove"} => call'[r].delegate # 0
                        /\ call'[r].pc = "insert" =>
                             call'[r].pair = call'[r].delegate
                               /\ minted'[call'[r].pair].delegate = call'[r].pair
                        /\ call'[r].pc \in {"get", "put"} =>
                             minted'[call'[r].pair].delegate \notin {0, call'[r].pair}
      BY DEF OwnPair
    <2>1. CASE r = q
      BY <1>0, <1>1, <1>2, <2>1, GrantsTyped DEF Pairs
    <2>2. CASE r # q
      <3>1. call'[r] = call[r] /\ (call[r].pair # 0 => minted'[call[r].pair] = minted[call[r].pair])
        BY <1>0, <1>1, <1>2, <2>2, GrantsTyped DEF Numbered
      <3> QED
        BY <3>1 DEF OwnPair
    <2> QED
      BY <2>1, <2>2
  <1>8. InsertsAreFirst'
    <2> SUFFICES ASSUME NEW r \in Handlers, call'[r].pc = "insert"
                 PROVE  /\ row'[call'[r].delegate] = 0 /\ call'[r].delegate \notin revoked'
                        /\ \A r2 \in Handlers : call'[r2].delegate = call'[r].delegate => r2 = r
      BY DEF InsertsAreFirst
    <2>1. CASE r = q
      <3>1. d = NewPair
        BY <1>2, <2>1
      <3>2. row[d] = 0 /\ d \notin revoked /\ \A r2 \in Handlers : call[r2].delegate # d
        BY <1>0, <1>1, <3>1, GrantsTyped DEF Numbered, Pairs
      <3> QED
        BY <1>2, <1>3, <2>1, <3>2
    <2>2. CASE r # q
      <3>1. /\ call'[r] = call[r] /\ call[r].pc = "insert" /\ call[r].delegate # NewPair
            /\ row[call[r].delegate] = 0
        BY <1>0, <1>1, <1>2, <2>2, GrantsTyped DEF Numbered, InsertsAreFirst
      <3> QED
        BY <1>2, <1>3, <2>2, <3>1 DEF InsertsAreFirst
    <2> QED
      BY <2>1, <2>2
  <1>9. DeadStayDead'
    BY <1>2, <1>3 DEF DeadStayDead
  <1>10. OneHolder'
    <2> SUFFICES ASSUME NEW x \in DOMAIN minted', OneUse(x)'
                 PROVE  /\ handed'[x] <= 1
                        /\ x \in codes' => handed'[x] = 0 /\ \A r \in Handlers : ~Carries(r, x)'
                        /\ \A r \in Handlers : Carries(r, x)' =>
                             handed'[x] = 0 /\ \A r2 \in Handlers : Carries(r2, x)' => r2 = r
      BY DEF OneHolder
    <2>1. CASE x = NewPair
      <3>2. /\ Len(minted) \in Nat /\ x \in Pairs /\ x > Len(minted)
            /\ x \notin DOMAIN minted
        BY <1>0, <1>1, <2>1, GrantsTyped
      <3>3. \A r \in Handlers : call[r].pair # x
        BY <1>1, <3>2, GrantsTyped DEF Numbered
      <3>4. handed[x] = 0 /\ x \notin codes
        BY <3>2 DEF Numbered
      <3>1. handed'[x] = 0 /\ x \notin codes' /\ \A r \in Handlers : r # q => ~Carries(r, x)'
        BY <1>2, <1>3, <3>3, <3>4 DEF Carries
      <3> QED
        BY <3>1
    <2>2. CASE x # NewPair
      <3>1. /\ x \in DOMAIN minted /\ OneUse(x)
            /\ \A r \in Handlers : Carries(r, x)' => Carries(r, x)
        BY <1>0, <1>2, <1>4, <2>2 DEF OneUse, Carries
      <3> QED
        BY <1>3, <3>1 DEF OneHolder
    <2> QED
      BY <2>1, <2>2
  <1> QED
    BY <1>5, <1>6, <1>7, <1>8, <1>9, <1>10

LEMMA GrantsStep == GrantsInv /\ [GrantsNext]_grantVars => GrantsInv'
  <1> SUFFICES ASSUME GrantsInv, [GrantsNext]_grantVars PROVE GrantsInv'
    OBVIOUS
  <1>0. GrantsTypeOK
    BY DEF GrantsInv
  <1>1. ASSUME NEW s \in Consents, AskConsent(s) \/ Deny(s) PROVE GrantsInv'
    BY <1>1, LapseKeeps DEF AskConsent, Deny, Sweep, GrantsInv, GrantsTypeOK
  <1>2. ASSUME UserCode PROVE GrantsInv'
    BY <1>2, UserCodeKeeps
  <1>3. ASSUME NEW x \in codes \union consents, Ages(x) PROVE GrantsInv'
    BY <1>3, LapseKeeps DEF Ages, GrantsInv, GrantsTypeOK
  <1>4. ASSUME NEW q \in Handlers, NEW s \in Consents, Approve(q, s) PROVE GrantsInv'
    <2>1. Mint(NewPair, "oauth") /\ "oauth" \in Issuers
      BY <1>4 DEF Approve, Issuers
    <2>2. NewPair \in Pairs
      BY <1>0, <2>1 DEF GrantsTypeOK, Mint, NewPair, Pairs
    <2> QED
      BY <1>4, <2>1, <2>2, MintKeeps DEF Approve, Sweep
  <1>5. ASSUME NEW q \in Handlers, NEW i \in Issuers, Create(q, i) PROVE GrantsInv'
    <2>1. Mint(NewPair, i)
      BY <1>5 DEF Create
    <2>2. NewPair \in Pairs
      BY <1>0, <2>1 DEF GrantsTypeOK, Mint, NewPair, Pairs
    <2> QED
      BY <1>5, <2>1, <2>2, MintKeeps DEF Create
  <1>6. ASSUME NEW q \in Handlers, NEW p \in codes, Look(q, p) \/ Take(q, p) PROVE GrantsInv'
    BY <1>6, LookKeeps DEF Look, Take, Sweep, OneUse
  <1>7. ASSUME NEW q \in Handlers, NEW p \in DOMAIN minted, Refresh(q, p) PROVE GrantsInv'
    <2>1. /\ Free(q) /\ Mint(minted[p].delegate, minted[p].by)
          /\ Becomes(q, "get", NewPair, minted[p].delegate)
          /\ minted[p].delegate # 0 /\ row[minted[p].delegate] = p
          /\ UNCHANGED <<row, codes, consents, asked, aged, handed, revoked, overtaken>>
      BY <1>7 DEF Refresh, Accepts
    <2>2. /\ minted[p].delegate \in Pairs /\ minted[p].by \in Issuers
          /\ minted[p].delegate <= Len(minted) /\ p # 0
      BY <1>0, <2>1, GrantsTyped DEF GrantsInv, Numbered, Pairs
    <2> QED
      BY <2>1, <2>2, MintKeeps
  <1>8. ASSUME NEW q \in Handlers, NEW d \in DOMAIN minted, RevokeFind(q, d) PROVE GrantsInv'
    <2>1. /\ row[d] # 0 /\ Becomes(q, "remove", row[d], d)
          /\ UNCHANGED <<minted, row, codes, consents, asked, aged, handed, revoked, overtaken>>
      BY <1>8 DEF RevokeFind
    <2>2. d \in Pairs /\ row[d] \in 0..MaxPairs /\ row[d] <= Len(minted)
      BY <1>0, <2>1, GrantsTyped DEF GrantsInv, Numbered, Pairs
    <2> QED
      BY <2>1, <2>2, ReadKeeps
  <1>9. ASSUME NEW q \in Handlers, Insert(q) PROVE GrantsInv'
    BY <1>9, InsertKeeps
  <1>10. ASSUME NEW q \in Handlers, Answer(q) PROVE GrantsInv'
    BY <1>10, GiveKeeps, CodeKeeps DEF Answer, CallAt
  <1>11. ASSUME NEW q \in Handlers, Verified(q) PROVE GrantsInv'
    BY <1>11, GiveKeeps DEF Verified, CallAt
  <1>12. ASSUME NEW q \in Handlers, Rejected(q) \/ CallFails(q) PROVE GrantsInv'
    BY <1>12, DropKeeps DEF Rejected, CallFails
  <1>13. ASSUME NEW q \in Handlers, UpdateGet(q) PROVE GrantsInv'
    BY <1>13, GetKeeps
  <1>14. ASSUME NEW q \in Handlers, UpdatePut(q) PROVE GrantsInv'
    BY <1>14, WriteKeeps DEF UpdatePut, CallAt
  <1>15. ASSUME NEW q \in Handlers, RevokeRemove(q) PROVE GrantsInv'
    BY <1>15, RevokeKeeps
  <1>16. ASSUME UNCHANGED grantVars PROVE GrantsInv'
    BY <1>0, <1>16, LapseKeeps DEF grantVars, GrantsTypeOK
  <1> QED
    BY <1>1, <1>2, <1>3, <1>4, <1>5, <1>6, <1>7, <1>8, <1>9, <1>10, <1>11, <1>12, <1>13, <1>14,
       <1>15, <1>16 DEF GrantsNext

LEMMA GrantsInvariant == GrantsSpec => []GrantsInv
  BY GrantsInitInv, GrantsStep, PTL DEF GrantsSpec

(* A code of the OAuth server is answered with its tokens at most once, for    *)
(* any number of requests and for either kind of table.                        *)
THEOREM CodesServeOnce == GrantsSpec => []CodesAreForOneUse
  <1>1. GrantsInv => CodesAreForOneUse
    BY DEF GrantsInv, OneHolder, OneUse, CodesAreForOneUse
  <1> QED
    BY <1>1, GrantsInvariant, PTL

(* A delegate that was revoked, and overtaken by no refresh that had read its  *)
(* row, has no row again.                                                      *)
THEOREM RevocationHolds == GrantsSpec => []RevokedIsDead
  <1>1. GrantsInv => RevokedIsDead
    BY DEF GrantsInv, DeadStayDead, RevokedIsDead
  <1> QED
    BY <1>1, GrantsInvariant, PTL

HIDE GrantsAssumption

-----------------------------------------------------------------------------
(* The SSO cell.  Everything is said login by login: a login with two requests *)
(* on one handle at once is set aside, as the properties do.                   *)

FetchPcs == {"none", "401", "retry", "refused"} \union ServerSteps
Rows == [login : Nat, row : BOOLEAN]
Refreshes == [pc : FetchPcs, handle : Nat, next : Nat]

SsoTyped ==
  /\ session \in Seq(Rows) /\ refreshCookie \in {0} \union DOMAIN session
  /\ fetch \in [Fetches -> Refreshes]
  /\ logout \in [pc : {"none", "sent", "removed"}, handle : Nat]
  /\ logout.handle \in {0} \union DOMAIN session
  /\ logout.pc = "none" <=> logout.handle = 0
  /\ left \union atOnce \union broken \subseteq LoginsMade
  /\ \E k \in Nat : LoginsMade = 1..k
  /\ \A f \in Fetches :
       /\ fetch[f].handle \in {0} \union DOMAIN session
       /\ fetch[f].pc \in ServerSteps => fetch[f].handle # 0
       /\ fetch[f].pc \in {"none", "401", "retry"} => fetch[f].handle = 0
       /\ fetch[f].pc \in {"remove", "answer"} =>
            /\ fetch[f].next \in DOMAIN session /\ fetch[f].next # fetch[f].handle
            /\ LoginOf(fetch[f].next) = LoginOf(fetch[f].handle)

(* What is on its way, or in the cookie, for login l *)
FetchOn(f, l) == fetch[f].handle # 0 /\ LoginOf(fetch[f].handle) = l
LogoutOn(l) == logout.handle # 0 /\ LoginOf(logout.handle) = l
CookieOn(l) == refreshCookie # 0 /\ LoginOf(refreshCookie) = l

(* A login without two requests at once has one, on the handle of the cookie. *)
OneRequest(l) ==
  /\ \A f \in Fetches : FetchOn(f, l) =>
       /\ ~LogoutOn(l) /\ \A g \in Fetches : FetchOn(g, l) => g = f
       /\ CookieOn(l) => fetch[f].handle = refreshCookie
  /\ LogoutOn(l) /\ CookieOn(l) => logout.handle = refreshCookie

(* The handle that a page has, or will be given, has its row. *)
RowsStand(l) ==
  /\ \A f \in Fetches :
       FetchOn(f, l) /\ fetch[f].pc \in {"remove", "answer"} => session[fetch[f].next].row
  /\ CookieOn(l) /\ ~LogoutOn(l) /\ (\A f \in Fetches : FetchOn(f, l) => fetch[f].pc # "answer") =>
       session[refreshCookie].row

(* The rows a login can have: of the handle that its request came with, or of  *)
(* the one it is to be given; none, when it has logged out.                    *)
RowsOf(l) == {h \in DOMAIN session : LoginOf(h) = l /\ session[h].row}
Expected(f) ==
  (IF fetch[f].pc = "answer" THEN {} ELSE {fetch[f].handle})
    \union (IF fetch[f].pc \in {"remove", "answer"} THEN {fetch[f].next} ELSE {})

NoRowsMore(l) ==
  /\ \A f \in Fetches : FetchOn(f, l) => RowsOf(l) \subseteq Expected(f)
  /\ LogoutOn(l) => RowsOf(l) \subseteq (IF logout.pc = "sent" THEN {logout.handle} ELSE {})
  /\ CookieOn(l) /\ (\A f \in Fetches : ~FetchOn(f, l)) => RowsOf(l) \subseteq {refreshCookie}
  /\ l \in left => /\ RowsOf(l) = {} /\ ~CookieOn(l) /\ ~LogoutOn(l)
                   /\ \A f \in Fetches : ~FetchOn(f, l)

SsoInv ==
  /\ SsoTyped
  /\ \A l \in LoginsMade \ atOnce :
       OneRequest(l) /\ RowsStand(l) /\ (l \notin broken => NoRowsMore(l))

LEMMA SsoInitInv == SsoInit => SsoInv
  <1> SUFFICES ASSUME SsoInit PROVE SsoInv
    OBVIOUS
  <1>1. session = <<>> /\ LoginsMade = {}
    BY DEF SsoInit, LoginsMade
  <1>2. LoginsMade = 1..0
    BY <1>1
  <1>3. SsoTyped
    BY <1>1, <1>2 DEF SsoInit, SsoTyped, Waiting, NoLogout, Refreshes, FetchPcs, ServerSteps
  <1> QED
    BY <1>1, <1>3 DEF SsoInv

LEMMA SessionIsTyped ==
  ASSUME SsoTyped
  PROVE  /\ DOMAIN session = 1..Len(session) /\ Len(session) \in Nat
         /\ \A h \in DOMAIN session : session[h] \in Rows /\ LoginOf(h) \in LoginsMade
  BY ElementOfSeq DEF SsoTyped, LoginOf, LoginsMade

(* A fetch goes to c, and nothing else moves. *)
LEMMA FetchAfter ==
  ASSUME SsoTyped, NEW f \in Fetches, NEW c \in Refreshes, fetch' = [fetch EXCEPT ![f] = c]
  PROVE  /\ fetch' \in [Fetches -> Refreshes] /\ fetch'[f] = c
         /\ \A g \in Fetches : g # f => fetch'[g] = fetch[g]
  BY DEF SsoTyped

(* What is said of a login depends on its rows and requests only. *)
LEMMA LoginUndisturbed ==
  ASSUME NEW l, SsoTyped,
         OneRequest(l) /\ RowsStand(l) /\ (l \notin broken => NoRowsMore(l)),
         broken \subseteq broken', l \in left' => l \in left,
         DOMAIN session \subseteq DOMAIN session',
         \A h \in DOMAIN session : session'[h].login = session[h].login,
         \A h \in DOMAIN session : LoginOf(h) = l => session'[h] = session[h],
         \A h \in DOMAIN session' : session'[h].login = l => h \in DOMAIN session,
         \A f \in Fetches : FetchOn(f, l) \/ FetchOn(f, l)' => fetch'[f] = fetch[f],
         LogoutOn(l) \/ LogoutOn(l)' => logout' = logout,
         CookieOn(l) \/ CookieOn(l)' => refreshCookie' = refreshCookie
  PROVE  OneRequest(l)' /\ RowsStand(l)' /\ (l \notin broken' => NoRowsMore(l)')
  <1>1. \A f \in Fetches : FetchOn(f, l)' = FetchOn(f, l)
    BY DEF FetchOn, SsoTyped, LoginOf
  <1>2. LogoutOn(l)' = LogoutOn(l) /\ CookieOn(l)' = CookieOn(l)
    BY DEF LogoutOn, CookieOn, SsoTyped, LoginOf
  <1>3. RowsOf(l)' = RowsOf(l)
    BY DEF RowsOf, LoginOf
  <1>4. OneRequest(l)'
    BY <1>1, <1>2 DEF OneRequest
  <1>5. RowsStand(l)'
    <2>1. \A f \in Fetches : FetchOn(f, l) /\ fetch[f].pc \in {"remove", "answer"} =>
            session'[fetch[f].next] = session[fetch[f].next]
      BY DEF FetchOn, SsoTyped
    <2>2. CookieOn(l) => session'[refreshCookie] = session[refreshCookie]
      BY DEF CookieOn, SsoTyped
    <2> QED
      BY <1>1, <1>2, <2>1, <2>2 DEF RowsStand
  <1>6. \A f \in Fetches : FetchOn(f, l) => Expected(f)' = Expected(f)
    BY DEF Expected
  <1>7. l \notin broken' => NoRowsMore(l)'
    BY <1>1, <1>2, <1>3, <1>6 DEF NoRowsMore
  <1> QED
    BY <1>4, <1>5, <1>7

(* A fetch moves, keeping its handle, before the table has its next one. *)
LEMMA FetchMoves ==
  ASSUME SsoInv, NEW f \in Fetches, NEW pc \in FetchPcs \ {"remove", "answer"},
         fetch[f].pc \notin {"remove", "answer"},
         FetchTo(f, pc),
         pc \in ServerSteps => fetch[f].handle # 0,
         pc \in {"none", "401", "retry"} => fetch[f].handle = 0,
         UNCHANGED <<refreshCookie, session, logout, left, atOnce, broken>>
  PROVE  SsoInv'
  <1> DEFINE c == [fetch[f] EXCEPT !.pc = pc]
  <1>1. SsoTyped /\ fetch[f] \in Refreshes /\ c \in Refreshes /\ fetch' = [fetch EXCEPT ![f] = c]
        /\ c.pc = pc /\ c.handle = fetch[f].handle
    BY DEF SsoInv, SsoTyped, Refreshes, FetchTo
  <1> HIDE DEF c
  <1>2. /\ fetch' \in [Fetches -> Refreshes]
        /\ fetch'[f].pc = pc /\ fetch'[f].handle = fetch[f].handle
        /\ \A g \in Fetches : g # f => fetch'[g] = fetch[g]
    BY <1>1, FetchAfter
  <1>3. SsoTyped'
    <2>1. LoginsMade' = LoginsMade /\ \A h : LoginOf(h)' = LoginOf(h)
      BY DEF LoginsMade, LoginOf
    <2>2. \A g \in Fetches : fetch'[g].handle = fetch[g].handle
      BY <1>2
    <2>3. \A g \in Fetches : fetch'[g].pc \in {"remove", "answer"} => fetch'[g] = fetch[g]
      BY <1>2
    <2>4. \A g \in Fetches :
            /\ fetch'[g].pc \in ServerSteps => fetch'[g].handle # 0
            /\ fetch'[g].pc \in {"none", "401", "retry"} => fetch'[g].handle = 0
      BY <1>1, <1>2 DEF SsoTyped
    <2> QED
      BY <1>1, <1>2, <2>1, <2>2, <2>3, <2>4 DEF SsoTyped
  <1>4. ASSUME NEW l \in LoginsMade \ atOnce
        PROVE  OneRequest(l)' /\ RowsStand(l)' /\ (l \notin broken => NoRowsMore(l)')
    <2>1. OneRequest(l) /\ RowsStand(l) /\ (l \notin broken => NoRowsMore(l))
      BY DEF SsoInv
    <2>2. \A g \in Fetches : FetchOn(g, l)' = FetchOn(g, l) /\ fetch'[g].handle = fetch[g].handle
      BY <1>2 DEF FetchOn, LoginOf
    <2>3. LogoutOn(l)' = LogoutOn(l) /\ CookieOn(l)' = CookieOn(l) /\ RowsOf(l)' = RowsOf(l)
      BY DEF LogoutOn, CookieOn, RowsOf, LoginOf
    <2>4. OneRequest(l)'
      BY <2>1, <2>2, <2>3 DEF OneRequest
    <2>5. \A g \in Fetches : /\ fetch'[g].pc = "answer" <=> fetch[g].pc = "answer"
                             /\ fetch'[g].pc = "remove" <=> fetch[g].pc = "remove"
                             /\ fetch[g].pc \in {"remove", "answer"} => fetch'[g] = fetch[g]
      BY <1>2
    <2>6. RowsStand(l)'
      BY <2>1, <2>2, <2>3, <2>5 DEF RowsStand
    <2>7. \A g \in Fetches : Expected(g)' = Expected(g)
      BY <2>2, <2>5 DEF Expected
    <2>8. l \notin broken => NoRowsMore(l)'
      BY <2>1, <2>2, <2>3, <2>7 DEF NoRowsMore
    <2> QED
      BY <2>4, <2>6, <2>8
  <1> QED
    BY <1>3, <1>4 DEF SsoInv, LoginsMade

(* A fetch lets its handle go: a lost answer counts as two requests at once,   *)
(* and one between the two rows as broken.                                     *)
LEMMA FetchLeaves ==
  ASSUME SsoInv, NEW f \in Fetches, NEW c \in Refreshes, c.handle = 0,
         c.pc \notin ServerSteps, fetch' = [fetch EXCEPT ![f] = c],
         atOnce \subseteq atOnce', broken \subseteq broken',
         atOnce' \union broken' \subseteq LoginsMade,
         fetch[f].pc = "answer" => LoginOf(fetch[f].handle) \in atOnce',
         fetch[f].pc = "remove" => LoginOf(fetch[f].handle) \in broken',
         UNCHANGED <<refreshCookie, session, logout, left>>
  PROVE  SsoInv'
  <1>1. SsoTyped
    BY DEF SsoInv
  <1>2. /\ fetch' \in [Fetches -> Refreshes] /\ fetch'[f] = c
        /\ \A g \in Fetches : g # f => fetch'[g] = fetch[g]
    BY <1>1, FetchAfter
  <1>3. SsoTyped'
    BY SMTT(30), <1>1, <1>2 DEF SsoTyped, LoginsMade, LoginOf, ServerSteps
  <1>4. ASSUME NEW l \in LoginsMade \ atOnce'
        PROVE  OneRequest(l)' /\ RowsStand(l)' /\ (l \notin broken' => NoRowsMore(l)')
    <2>1. OneRequest(l) /\ RowsStand(l) /\ (l \notin broken => NoRowsMore(l))
      BY DEF SsoInv
    <2>2. \A g \in Fetches : FetchOn(g, l)' => g # f /\ FetchOn(g, l) /\ fetch'[g] = fetch[g]
      BY <1>2 DEF FetchOn, LoginOf
    <2>3. LogoutOn(l)' = LogoutOn(l) /\ CookieOn(l)' = CookieOn(l) /\ RowsOf(l)' = RowsOf(l)
      BY DEF LogoutOn, CookieOn, RowsOf, LoginOf
    <2>4. OneRequest(l)'
      BY <2>1, <2>2, <2>3 DEF OneRequest
    <2>5. \A g \in Fetches : FetchOn(g, l) => (g # f /\ fetch'[g] = fetch[g]) \/ fetch[g].pc # "answer"
      BY <1>2 DEF FetchOn
    <2>6. RowsStand(l)'
      <3>1. ASSUME NEW g \in Fetches, FetchOn(g, l), fetch[g].pc = "answer" PROVE FetchOn(g, l)'
        BY <1>2, <2>5, <3>1 DEF FetchOn, LoginOf
      <3>2. (\A g \in Fetches : FetchOn(g, l)' => fetch'[g].pc # "answer") =>
              \A g \in Fetches : FetchOn(g, l) => fetch[g].pc # "answer"
        BY <2>2, <3>1
      <3> QED
        BY <2>1, <2>2, <2>3, <3>2 DEF RowsStand
    <2>7. \A g \in Fetches : FetchOn(g, l)' => Expected(g)' = Expected(g)
      BY <2>2 DEF Expected
    <2>8. l \notin broken' => NoRowsMore(l)'
      <3> SUFFICES ASSUME l \notin broken' PROVE NoRowsMore(l)'
        OBVIOUS
      <3>1. NoRowsMore(l) /\ l \notin broken
        BY <2>1
      <3>2. CASE FetchOn(f, l)
        <4>1. RowsOf(l) \subseteq {fetch[f].handle}
          BY <2>5, <3>1, <3>2 DEF NoRowsMore, Expected, FetchOn
        <4>2. CookieOn(l) => fetch[f].handle = refreshCookie
          BY <2>1, <3>2 DEF OneRequest
        <4>3. (\A g \in Fetches : ~FetchOn(g, l)') /\ ~LogoutOn(l) /\ l \notin left
          BY <2>1, <2>2, <3>1, <3>2 DEF OneRequest, NoRowsMore
        <4> QED
          BY <2>3, <4>1, <4>2, <4>3 DEF NoRowsMore
      <3>3. CASE ~FetchOn(f, l)
        <4>1. \A g \in Fetches : FetchOn(g, l)' = FetchOn(g, l)
          BY <1>2, <2>2, <3>3 DEF FetchOn, LoginOf
        <4> QED
          BY <2>3, <2>7, <3>1, <4>1 DEF NoRowsMore
      <3> QED
        BY <3>2, <3>3
    <2> QED
      BY <2>4, <2>6, <2>8
  <1> QED
    BY <1>3, <1>4 DEF SsoInv, LoginsMade

(* A refresh, or a logout, is sent with the handle of the cookie. *)
LEMMA SendKeeps ==
  ASSUME SsoInv, NEW f \in Fetches, FetchAt(f, "401"), refreshCookie # 0, SendRefresh(f)
  PROVE  SsoInv'
  <1> DEFINE c == [pc |-> "get", handle |-> refreshCookie, next |-> 0]
             k == LoginOf(refreshCookie)
  <1>1. SsoTyped /\ c \in Refreshes /\ refreshCookie \in DOMAIN session /\ k \in LoginsMade
        /\ fetch[f].handle = 0
    <2>1. SsoTyped /\ fetch[f].handle = 0
      BY DEF SsoInv, SsoTyped, FetchAt
    <2>2. refreshCookie \in DOMAIN session /\ refreshCookie \in Nat
      BY <2>1, SessionIsTyped DEF SsoTyped
    <2>3. k \in LoginsMade
      BY <2>1, <2>2, SessionIsTyped
    <2>4. c \in Refreshes
      BY <2>2 DEF Refreshes, FetchPcs, ServerSteps
    <2> QED
      BY <2>1, <2>2, <2>3, <2>4
  <1>2. /\ fetch' = [fetch EXCEPT ![f] = c]
        /\ atOnce' = IF \/ logout.handle = refreshCookie
                        \/ \E g \in Fetches : fetch[g].handle = refreshCookie
                     THEN atOnce \union {k} ELSE atOnce
        /\ UNCHANGED <<refreshCookie, session, logout, left, broken>>
    BY DEF SendRefresh
  <1>3. /\ fetch' \in [Fetches -> Refreshes] /\ fetch'[f].pc = "get"
        /\ fetch'[f].handle = refreshCookie
        /\ \A g \in Fetches : g # f => fetch'[g] = fetch[g]
    BY <1>1, <1>2, FetchAfter
  <1>4. SsoTyped'
    <2>1. LoginsMade' = LoginsMade /\ \A h : LoginOf(h)' = LoginOf(h)
      BY <1>2 DEF LoginsMade, LoginOf
    <2>2. left' \union atOnce' \union broken' \subseteq LoginsMade
      BY <1>1, <1>2 DEF SsoTyped
    <2> QED
      BY <1>1, <1>2, <1>3, <2>1, <2>2 DEF SsoTyped, ServerSteps
  <1>5. ASSUME NEW l \in LoginsMade \ atOnce'
        PROVE  OneRequest(l)' /\ RowsStand(l)' /\ (l \notin broken' => NoRowsMore(l)')
    <2>1. l \notin atOnce /\ OneRequest(l) /\ RowsStand(l) /\ (l \notin broken => NoRowsMore(l))
      BY <1>2 DEF SsoInv
    <2>2. CASE l = k
      <3>1. CookieOn(l) /\ ~LogoutOn(l) /\ \A g \in Fetches : ~FetchOn(g, l)
        BY <1>1, <1>2, <2>1, <2>2 DEF OneRequest, CookieOn
      <3>2. /\ CookieOn(l)' /\ ~LogoutOn(l)' /\ RowsOf(l)' = RowsOf(l)
            /\ \A g \in Fetches : FetchOn(g, l)' => g = f
        BY <1>2, <1>3, <3>1 DEF CookieOn, LogoutOn, FetchOn, LoginOf, RowsOf
      <3>3. OneRequest(l)'
        BY <1>2, <1>3, <3>2 DEF OneRequest
      <3>4. RowsStand(l)'
        BY <1>2, <1>3, <2>1, <3>1, <3>2 DEF RowsStand
      <3>5. Expected(f)' = {refreshCookie}
        BY <1>3 DEF Expected
      <3>6. l \notin broken' => NoRowsMore(l)'
        BY <1>2, <2>1, <3>1, <3>2, <3>5 DEF NoRowsMore
      <3> QED
        BY <3>3, <3>4, <3>6
    <2>3. CASE l # k
      BY <1>1, <1>2, <1>3, <2>1, <2>3, LoginUndisturbed
         DEF FetchOn, LogoutOn, CookieOn, LoginOf
    <2> QED
      BY <2>2, <2>3
  <1> QED
    BY <1>2, <1>4, <1>5 DEF SsoInv, LoginsMade

LEMMA SendLogoutKeeps ==
  ASSUME SsoInv, SendLogout
  PROVE  SsoInv'
  <1> DEFINE k == LoginOf(refreshCookie)
  <1>1. /\ SsoTyped /\ refreshCookie \in DOMAIN session /\ refreshCookie # 0 /\ k \in LoginsMade
        /\ logout.handle = 0 /\ refreshCookie \in Nat
    <2>1. SsoTyped /\ logout.handle = 0 /\ refreshCookie \in DOMAIN session
      BY DEF SsoInv, SsoTyped, SendLogout
    <2> QED
      BY <2>1, SessionIsTyped DEF SendLogout
  <1>2. /\ logout' = [pc |-> "sent", handle |-> refreshCookie]
        /\ atOnce' = IF \E g \in Fetches : fetch[g].handle = refreshCookie
                     THEN atOnce \union {k} ELSE atOnce
        /\ UNCHANGED <<refreshCookie, session, fetch, left, broken>>
    BY DEF SendLogout
  <1>3. logout'.pc = "sent" /\ logout'.handle = refreshCookie
    BY <1>2
  <1>4. SsoTyped'
    <2>1. LoginsMade' = LoginsMade /\ \A h : LoginOf(h)' = LoginOf(h)
      BY <1>2 DEF LoginsMade, LoginOf
    <2>2. left' \union atOnce' \union broken' \subseteq LoginsMade
      BY <1>1, <1>2 DEF SsoTyped
    <2> QED
      BY <1>1, <1>2, <1>3, <2>1, <2>2 DEF SsoTyped
  <1>5. ASSUME NEW l \in LoginsMade \ atOnce'
        PROVE  OneRequest(l)' /\ RowsStand(l)' /\ (l \notin broken' => NoRowsMore(l)')
    <2>1. l \notin atOnce /\ OneRequest(l) /\ RowsStand(l) /\ (l \notin broken => NoRowsMore(l))
      BY <1>2 DEF SsoInv
    <2>2. CASE l = k
      <3>1. CookieOn(l) /\ \A g \in Fetches : ~FetchOn(g, l)
        BY <1>1, <1>2, <2>1, <2>2 DEF OneRequest, CookieOn
      <3>2. /\ CookieOn(l)' /\ LogoutOn(l)' /\ RowsOf(l)' = RowsOf(l)
            /\ \A g \in Fetches : ~FetchOn(g, l)'
        BY <1>1, <1>2, <1>3, <2>2, <3>1 DEF CookieOn, LogoutOn, FetchOn, LoginOf, RowsOf
      <3>3. OneRequest(l)' /\ RowsStand(l)'
        BY <1>2, <1>3, <3>2 DEF OneRequest, RowsStand
      <3>4. l \notin broken' => NoRowsMore(l)'
        BY <1>2, <1>3, <2>1, <3>1, <3>2 DEF NoRowsMore
      <3> QED
        BY <3>3, <3>4
    <2>3. CASE l # k
      BY <1>1, <1>2, <1>3, <2>1, <2>3, LoginUndisturbed
         DEF FetchOn, LogoutOn, CookieOn, LoginOf
    <2> QED
      BY <2>2, <2>3
  <1> QED
    BY <1>2, <1>4, <1>5 DEF SsoInv, LoginsMade

(* A new handle is none that anything else knows. *)
LEMMA HandlePut ==
  ASSUME SsoTyped, NEW l \in Nat, PutHandle(l)
  PROVE  /\ session' \in Seq(Rows) /\ DOMAIN session' = DOMAIN session \union {Len(session) + 1}
         /\ Len(session) + 1 \notin DOMAIN session /\ Len(session) + 1 \in Nat \ {0}
         /\ session'[Len(session) + 1].login = l /\ session'[Len(session) + 1].row = TRUE
         /\ \A h \in DOMAIN session : session'[h] = session[h]
         /\ LoginsMade' = LoginsMade \union {l}
  <1> DEFINE x == [login |-> l, row |-> TRUE]
  <1>1. session \in Seq(Rows) /\ x \in Rows /\ session' = Append(session, x)
    BY DEF SsoTyped, PutHandle, Rows
  <1>2. x.login = l /\ x.row = TRUE
    OBVIOUS
  <1> HIDE DEF x
  <1>3. /\ session' \in Seq(Rows) /\ DOMAIN session' = 1..(Len(session) + 1)
        /\ DOMAIN session = 1..Len(session) /\ Len(session) \in Nat
        /\ session'[Len(session) + 1] = x
        /\ \A h \in 1..Len(session) : session'[h] = session[h]
    BY <1>1
  <1>4. DOMAIN session' = DOMAIN session \union {Len(session) + 1}
    BY <1>3
  <1>5. LoginsMade' = LoginsMade \union {l}
    BY <1>2, <1>3, <1>4 DEF LoginsMade
  <1> QED
    BY <1>2, <1>3, <1>4, <1>5

LEMMA HandleRemoved ==
  ASSUME SsoTyped, NEW h \in DOMAIN session, RemoveByHandle(h)
  PROVE  /\ session' \in Seq(Rows) /\ DOMAIN session' = DOMAIN session
         /\ \A x \in DOMAIN session : session'[x].login = session[x].login
         /\ ~session'[h].row
         /\ \A x \in DOMAIN session : x # h => session'[x] = session[x]
         /\ LoginsMade' = LoginsMade
  <1> DEFINE y == [session[h] EXCEPT !.row = FALSE]
  <1>1. session \in Seq(Rows) /\ session[h] \in Rows /\ session' = [session EXCEPT ![h] = y]
    BY ElementOfSeq DEF SsoTyped, RemoveByHandle
  <1>2. y \in Rows /\ y.login = session[h].login /\ y.row = FALSE
    BY <1>1 DEF Rows
  <1> HIDE DEF y
  <1>3. /\ session' \in Seq(Rows) /\ DOMAIN session' = DOMAIN session /\ session'[h] = y
        /\ \A x \in DOMAIN session : x # h => session'[x] = session[x]
    BY <1>1, <1>2, ExceptSeq
  <1>4. \A x \in DOMAIN session : session'[x].login = session[x].login
    BY <1>2, <1>3
  <1>5. LoginsMade' = LoginsMade
    BY <1>3, <1>4 DEF LoginsMade
  <1> QED
    BY <1>2, <1>3, <1>4, <1>5

LEMMA LoginKeeps ==
  ASSUME SsoInv, Login
  PROVE  SsoInv'
  <1> DEFINE k == Cardinality(LoginsMade) + 1
             n == Len(session) + 1
  <1>1. SsoTyped
    BY DEF SsoInv
  <1>2. k \in Nat /\ k \notin LoginsMade /\ \E j \in Nat : LoginsMade \union {k} = 1..j
    <2>1. PICK j \in Nat : LoginsMade = 1..j
      BY <1>1 DEF SsoTyped
    <2>2. Cardinality(1..j) = j
      <3>1. Cardinality(1..j) = IF 1 > j THEN 0 ELSE j - 1 + 1
        BY FS_Interval
      <3> QED
        BY <3>1
    <2>3. k = j + 1
      BY <2>1, <2>2
    <2>4. LoginsMade \union {k} = 1..(j + 1)
      BY <2>1, <2>3
    <2> QED
      BY <2>1, <2>3, <2>4
  <1>3. /\ PutHandle(k) /\ refreshCookie' = n
        /\ UNCHANGED <<fetch, logout, left, atOnce, broken>>
    BY DEF Login
  <1> HIDE DEF k
  <1>4. /\ session' \in Seq(Rows) /\ DOMAIN session' = DOMAIN session \union {n}
        /\ n \notin DOMAIN session /\ n \in Nat \ {0}
        /\ session'[n].login = k /\ session'[n].row = TRUE
        /\ \A h \in DOMAIN session : session'[h] = session[h]
        /\ LoginsMade' = LoginsMade \union {k}
    BY <1>1, <1>2, <1>3, HandlePut
  <1> HIDE DEF n
  <1>5. SsoTyped'
    <2>1. \A h \in DOMAIN session : session'[h].login = session[h].login
      BY <1>4
    <2>2. \A f \in Fetches :
            /\ fetch[f].handle \in {0} \union DOMAIN session'
            /\ fetch[f].pc \in ServerSteps => fetch[f].handle # 0
            /\ fetch[f].pc \in {"none", "401", "retry"} => fetch[f].handle = 0
            /\ fetch[f].pc \in {"remove", "answer"} =>
                 /\ fetch[f].next \in DOMAIN session' /\ fetch[f].next # fetch[f].handle
                 /\ session'[fetch[f].next].login = session'[fetch[f].handle].login
      BY <1>1, <1>4, <2>1 DEF SsoTyped, ServerSteps, LoginOf
    <2>3. /\ refreshCookie' \in {0} \union DOMAIN session'
          /\ logout'.handle \in {0} \union DOMAIN session'
          /\ left' \union atOnce' \union broken' \subseteq LoginsMade'
          /\ \E j \in Nat : LoginsMade' = 1..j
      BY <1>1, <1>2, <1>3, <1>4 DEF SsoTyped
    <2> QED
      BY <1>1, <1>3, <1>4, <2>2, <2>3 DEF SsoTyped, LoginOf
  <1>6. ASSUME NEW l \in LoginsMade' \ atOnce'
        PROVE  OneRequest(l)' /\ RowsStand(l)' /\ (l \notin broken' => NoRowsMore(l)')
    <2>1. CASE l = k
      <3>1. /\ CookieOn(l)' /\ ~LogoutOn(l)' /\ \A f \in Fetches : ~FetchOn(f, l)'
        BY <1>1, <1>2, <1>3, <1>4, <2>1, SessionIsTyped
           DEF CookieOn, LogoutOn, FetchOn, LoginOf, SsoTyped
      <3>2. RowsOf(l)' \subseteq {n}
        BY <1>1, <1>2, <1>4, <2>1, SessionIsTyped DEF RowsOf, LoginOf
      <3>3. l \notin left'
        BY <1>1, <1>2, <1>3, <2>1 DEF SsoTyped
      <3> QED
        BY <1>3, <1>4, <3>1, <3>2, <3>3 DEF OneRequest, RowsStand, NoRowsMore
    <2>2. CASE l # k
      <3>1. l \in LoginsMade \ atOnce
        BY <1>3, <1>4, <2>2
      <3>2. OneRequest(l) /\ RowsStand(l) /\ (l \notin broken => NoRowsMore(l))
        BY <3>1 DEF SsoInv
      <3>3. CASE CookieOn(l)
        <4>1. ~CookieOn(l)' /\ LogoutOn(l)' = LogoutOn(l) /\ RowsOf(l)' = RowsOf(l)
          BY <1>1, <1>3, <1>4, <2>2 DEF CookieOn, LogoutOn, LoginOf, RowsOf, SsoTyped
        <4>2. \A f \in Fetches : /\ FetchOn(f, l)' = FetchOn(f, l) /\ Expected(f)' = Expected(f)
                                 /\ FetchOn(f, l) /\ fetch[f].pc \in {"remove", "answer"} =>
                                      session'[fetch[f].next] = session[fetch[f].next]
          BY <1>1, <1>3, <1>4 DEF FetchOn, Expected, LoginOf, SsoTyped
        <4>3. OneRequest(l)' /\ RowsStand(l)'
          BY <1>3, <3>2, <4>1, <4>2 DEF OneRequest, RowsStand
        <4>4. l \notin broken' => NoRowsMore(l)'
          BY <1>3, <3>2, <4>1, <4>2 DEF NoRowsMore
        <4> QED
          BY <4>3, <4>4
      <3>4. CASE ~CookieOn(l)
        <4>1. ~CookieOn(l)'
          BY <1>3, <1>4, <2>2 DEF CookieOn, LoginOf
        <4> QED
          BY <1>1, <1>3, <1>4, <2>2, <3>2, <3>4, <4>1, LoginUndisturbed
      <3> QED
        BY <3>3, <3>4
    <2> QED
      BY <2>1, <2>2
  <1> QED
    BY <1>5, <1>6 DEF SsoInv

(* A step of f puts or removes rows of its own login k; another login is        *)
(* undisturbed by it.                                                          *)
LEMMA OthersUndisturbed ==
  ASSUME SsoInv, NEW f \in Fetches, fetch[f].handle # 0, NEW l \in LoginsMade \ atOnce,
         l # LoginOf(fetch[f].handle),
         \A g \in Fetches : g # f => fetch'[g] = fetch[g],
         fetch'[f].handle \in {0, fetch[f].handle},
         DOMAIN session \subseteq DOMAIN session',
         \A h \in DOMAIN session : session'[h].login = session[h].login,
         \A h \in DOMAIN session : LoginOf(h) = l => session'[h] = session[h],
         \A h \in DOMAIN session' : session'[h].login = l => h \in DOMAIN session,
         UNCHANGED <<refreshCookie, logout, left, broken>>
  PROVE  OneRequest(l)' /\ RowsStand(l)' /\ (l \notin broken' => NoRowsMore(l)')
  <1>1. SsoTyped /\ OneRequest(l) /\ RowsStand(l) /\ (l \notin broken => NoRowsMore(l))
    BY DEF SsoInv
  <1>2. fetch[f].handle \in DOMAIN session
    BY <1>1 DEF SsoTyped
  <1>3. ~FetchOn(f, l) /\ ~FetchOn(f, l)'
    BY <1>2 DEF FetchOn, LoginOf
  <1> QED
    BY <1>1, <1>3, LoginUndisturbed

LEMMA PutNextKeeps ==
  ASSUME SsoInv, NEW f \in Fetches, PutNext(f)
  PROVE  SsoInv'
  <1> DEFINE k == LoginOf(fetch[f].handle)
             n == Len(session) + 1
             c == [fetch[f] EXCEPT !.pc = "remove", !.next = n]
  <1>1. SsoTyped /\ fetch[f].pc = "put" /\ fetch[f] \in Refreshes
        /\ fetch[f].handle \in DOMAIN session /\ fetch[f].handle # 0
    BY DEF SsoInv, SsoTyped, PutNext, FetchAt, ServerSteps
  <1>2. k \in LoginsMade /\ k \in Nat
    BY <1>1, SessionIsTyped DEF Rows, LoginOf
  <1>3. /\ PutHandle(k) /\ fetch' = [fetch EXCEPT ![f] = c]
        /\ UNCHANGED <<refreshCookie, logout, left, atOnce, broken>>
    BY DEF PutNext
  <1>4. /\ session' \in Seq(Rows) /\ DOMAIN session' = DOMAIN session \union {n}
        /\ n \notin DOMAIN session /\ n \in Nat \ {0}
        /\ session'[n].login = k /\ session'[n].row = TRUE
        /\ \A h \in DOMAIN session : session'[h] = session[h]
        /\ LoginsMade' = LoginsMade
    BY ZenonT(60), <1>1, <1>2, <1>3, HandlePut
  <1>5. c \in Refreshes /\ c.pc = "remove" /\ c.handle = fetch[f].handle /\ c.next = n
    BY <1>1, <1>4 DEF Refreshes, FetchPcs, ServerSteps
  <1> HIDE DEF c
  <1>6. /\ fetch' \in [Fetches -> Refreshes] /\ fetch'[f] = c
        /\ \A g \in Fetches : g # f => fetch'[g] = fetch[g]
    BY <1>1, <1>3, <1>5, FetchAfter
  <1> HIDE DEF n
  <1>7. SsoTyped'
    <2>1. ASSUME NEW g \in Fetches
          PROVE  /\ fetch'[g].handle \in {0} \union DOMAIN session'
                 /\ fetch'[g].pc \in ServerSteps => fetch'[g].handle # 0
                 /\ fetch'[g].pc \in {"none", "401", "retry"} => fetch'[g].handle = 0
                 /\ fetch'[g].pc \in {"remove", "answer"} =>
                      /\ fetch'[g].next \in DOMAIN session' /\ fetch'[g].next # fetch'[g].handle
                      /\ session'[fetch'[g].next].login = session'[fetch'[g].handle].login
      <3>1. CASE g = f
        BY <1>1, <1>4, <1>5, <1>6, <3>1 DEF LoginOf
      <3>2. CASE g # f
        <4>1. fetch'[g] = fetch[g]
          BY <1>6, <3>2
        <4> QED
          BY <1>1, <1>4, <4>1 DEF SsoTyped, ServerSteps, LoginOf
      <3> QED
        BY <3>1, <3>2
    <2> QED
      BY <1>1, <1>3, <1>4, <1>6, <2>1 DEF SsoTyped, LoginOf
  <1>8. ASSUME NEW l \in LoginsMade \ atOnce
        PROVE  OneRequest(l)' /\ RowsStand(l)' /\ (l \notin broken' => NoRowsMore(l)')
    <2>1. SsoTyped /\ OneRequest(l) /\ RowsStand(l) /\ (l \notin broken => NoRowsMore(l))
      BY DEF SsoInv
    <2>2. CASE l = k
      <3>1. FetchOn(f, l) /\ ~LogoutOn(l) /\ \A g \in Fetches : FetchOn(g, l) => g = f
        BY <1>1, <2>1, <2>2 DEF OneRequest, FetchOn
      <3>2. /\ FetchOn(f, l)' /\ ~LogoutOn(l)' /\ CookieOn(l)' = CookieOn(l)
            /\ \A g \in Fetches : FetchOn(g, l)' => g = f
        BY <1>1, <1>3, <1>4, <1>5, <1>6, <2>1, <2>2, <3>1
           DEF FetchOn, LogoutOn, CookieOn, LoginOf, SsoTyped
      <3>3. RowsOf(l)' = RowsOf(l) \union {n}
        BY <1>4, <2>2 DEF RowsOf, LoginOf
      <3>4. OneRequest(l)'
        BY <1>3, <1>5, <1>6, <2>1, <3>1, <3>2 DEF OneRequest
      <3>5. RowsStand(l)'
        <4>1. CookieOn(l) => session[refreshCookie].row /\ refreshCookie \in DOMAIN session
          BY <1>1, <2>1, <3>1 DEF RowsStand, CookieOn, SsoTyped
        <4> QED
          BY <1>3, <1>4, <1>5, <1>6, <3>2, <4>1 DEF RowsStand
      <3>6. Expected(f) = {fetch[f].handle} /\ Expected(f)' = {fetch[f].handle, n}
        BY <1>1, <1>5, <1>6 DEF Expected
      <3>7. l \notin broken' => NoRowsMore(l)'
        BY <1>3, <2>1, <3>1, <3>2, <3>3, <3>6 DEF NoRowsMore
      <3> QED
        BY <3>4, <3>5, <3>7
    <2>3. CASE l # k
      <3>1. /\ \A h \in DOMAIN session : session'[h].login = session[h].login
            /\ \A h \in DOMAIN session' : session'[h].login = l => h \in DOMAIN session
        BY <1>4, <2>3
      <3> QED
        BY <1>1, <1>3, <1>4, <1>5, <1>6, <2>3, <3>1, OthersUndisturbed
    <2> QED
      BY <2>2, <2>3
  <1> QED
    BY <1>3, <1>4, <1>7, <1>8 DEF SsoInv

LEMMA RemoveOldKeeps ==
  ASSUME SsoInv, NEW f \in Fetches, RemoveOld(f)
  PROVE  SsoInv'
  <1> DEFINE h == fetch[f].handle
             k == LoginOf(h)
             c == [fetch[f] EXCEPT !.pc = "answer"]
  <1>1. /\ SsoTyped /\ fetch[f].pc = "remove" /\ fetch[f] \in Refreshes
        /\ h \in DOMAIN session /\ h # 0 /\ fetch[f].next \in DOMAIN session
        /\ fetch[f].next # h
    BY DEF SsoInv, SsoTyped, RemoveOld, FetchAt, ServerSteps
  <1>2. /\ RemoveByHandle(h) /\ fetch' = [fetch EXCEPT ![f] = c]
        /\ UNCHANGED <<refreshCookie, logout, left, atOnce, broken>>
    BY DEF RemoveOld, FetchTo
  <1>3. /\ session' \in Seq(Rows) /\ DOMAIN session' = DOMAIN session
        /\ \A x \in DOMAIN session : session'[x].login = session[x].login
        /\ ~session'[h].row
        /\ \A x \in DOMAIN session : x # h => session'[x] = session[x]
        /\ LoginsMade' = LoginsMade
    BY <1>1, <1>2, HandleRemoved
  <1>4. c \in Refreshes /\ c.pc = "answer" /\ c.handle = h /\ c.next = fetch[f].next
    BY <1>1 DEF Refreshes, FetchPcs, ServerSteps
  <1> HIDE DEF c
  <1>5. /\ fetch' \in [Fetches -> Refreshes] /\ fetch'[f] = c
        /\ \A g \in Fetches : g # f => fetch'[g] = fetch[g]
    BY <1>1, <1>2, <1>4, FetchAfter
  <1>6. SsoTyped'
    <2>1. \A g \in Fetches :
            /\ fetch'[g].handle = fetch[g].handle /\ fetch'[g].next = fetch[g].next
            /\ fetch'[g].pc = fetch[g].pc \/ (fetch'[g].pc = "answer" /\ fetch[g].pc = "remove")
      BY <1>1, <1>4, <1>5
    <2>2. ASSUME NEW g \in Fetches
          PROVE  /\ fetch'[g].handle \in {0} \union DOMAIN session'
                 /\ fetch'[g].pc \in ServerSteps => fetch'[g].handle # 0
                 /\ fetch'[g].pc \in {"none", "401", "retry"} => fetch'[g].handle = 0
                 /\ fetch'[g].pc \in {"remove", "answer"} =>
                      /\ fetch'[g].next \in DOMAIN session' /\ fetch'[g].next # fetch'[g].handle
                      /\ session'[fetch'[g].next].login = session'[fetch'[g].handle].login
      <3>1. /\ fetch[g].handle \in {0} \union DOMAIN session
            /\ fetch[g].pc \in ServerSteps => fetch[g].handle # 0
            /\ fetch[g].pc \in {"none", "401", "retry"} => fetch[g].handle = 0
            /\ fetch[g].pc \in {"remove", "answer"} =>
                 /\ fetch[g].next \in DOMAIN session /\ fetch[g].next # fetch[g].handle
                 /\ session[fetch[g].next].login = session[fetch[g].handle].login
        BY <1>1 DEF SsoTyped, LoginOf
      <3> QED
        BY <1>3, <2>1, <3>1 DEF ServerSteps
    <2>3. left' \union atOnce' \union broken' \subseteq LoginsMade' /\ \E j \in Nat : LoginsMade' = 1..j
      BY <1>1, <1>2, <1>3 DEF SsoTyped
    <2> QED
      BY <1>1, <1>2, <1>3, <1>5, <2>2, <2>3 DEF SsoTyped, LoginOf
  <1>7. ASSUME NEW l \in LoginsMade \ atOnce
        PROVE  OneRequest(l)' /\ RowsStand(l)' /\ (l \notin broken' => NoRowsMore(l)')
    <2>1. SsoTyped /\ OneRequest(l) /\ RowsStand(l) /\ (l \notin broken => NoRowsMore(l))
      BY DEF SsoInv
    <2>2. CASE l = k
      <3>1. FetchOn(f, l) /\ ~LogoutOn(l) /\ \A g \in Fetches : FetchOn(g, l) => g = f
        BY <1>1, <2>1, <2>2 DEF OneRequest, FetchOn
      <3>2. /\ FetchOn(f, l)' /\ ~LogoutOn(l)' /\ CookieOn(l)' = CookieOn(l)
            /\ \A g \in Fetches : FetchOn(g, l)' => g = f
        BY SMTT(30), <1>1, <1>2, <1>3, <1>4, <1>5, <2>1, <2>2, <3>1
           DEF FetchOn, LogoutOn, CookieOn, LoginOf, SsoTyped
      <3>3. RowsOf(l)' = RowsOf(l) \ {h}
        BY <1>3 DEF RowsOf, LoginOf
      <3>4. OneRequest(l)'
        BY <1>2, <1>4, <1>5, <2>1, <3>1, <3>2 DEF OneRequest
      <3>5. RowsStand(l)'
        BY <1>1, <1>3, <1>4, <1>5, <2>1, <3>1, <3>2 DEF RowsStand
      <3>6. Expected(f) = {h, fetch[f].next} /\ Expected(f)' = {fetch[f].next}
        BY <1>1, <1>4, <1>5 DEF Expected
      <3>7. l \notin broken' => NoRowsMore(l)'
        BY <1>2, <2>1, <3>1, <3>2, <3>3, <3>6 DEF NoRowsMore
      <3> QED
        BY <3>4, <3>5, <3>7
    <2>3. CASE l # k
      BY <1>1, <1>2, <1>3, <1>4, <1>5, <2>3, OthersUndisturbed
    <2> QED
      BY <2>2, <2>3
  <1> QED
    BY <1>2, <1>3, <1>6, <1>7 DEF SsoInv

LEMMA AnsweredKeeps ==
  ASSUME SsoInv, NEW f \in Fetches, RefreshAnswered(f)
  PROVE  SsoInv'
  <1> DEFINE h == fetch[f].handle
             n == fetch[f].next
             k == LoginOf(h)
             c == [Waiting EXCEPT !.pc = "retry"]
  <1>1. /\ SsoTyped /\ fetch[f].pc = "answer" /\ LoginOf(n) = k
        /\ h \in DOMAIN session /\ h # 0 /\ n \in DOMAIN session
    BY DEF SsoInv, SsoTyped, RefreshAnswered, FetchAt, ServerSteps
  <1>2. n # 0 /\ k \in LoginsMade
    BY <1>1, SessionIsTyped
  <1>3. /\ refreshCookie' = n /\ fetch' = [fetch EXCEPT ![f] = c]
        /\ UNCHANGED <<session, logout, left, atOnce, broken>>
    BY DEF RefreshAnswered
  <1>4. c \in Refreshes /\ c.pc = "retry" /\ c.handle = 0
    BY DEF Refreshes, FetchPcs, Waiting
  <1> HIDE DEF c
  <1>5. /\ fetch' \in [Fetches -> Refreshes] /\ fetch'[f] = c
        /\ \A g \in Fetches : g # f => fetch'[g] = fetch[g]
    BY <1>1, <1>3, <1>4, FetchAfter
  <1>6. SsoTyped'
    <2>1. \A g \in Fetches : g = f \/ fetch'[g] = fetch[g]
      BY <1>5
    <2>2. LoginsMade' = LoginsMade /\ \A x : LoginOf(x)' = LoginOf(x)
      BY <1>3 DEF LoginsMade, LoginOf
    <2> QED
      BY <1>1, <1>3, <1>4, <1>5, <2>1, <2>2 DEF SsoTyped, ServerSteps, LoginOf
  <1>7. ASSUME NEW l \in LoginsMade \ atOnce
        PROVE  OneRequest(l)' /\ RowsStand(l)' /\ (l \notin broken' => NoRowsMore(l)')
    <2>1. OneRequest(l) /\ RowsStand(l) /\ (l \notin broken => NoRowsMore(l))
      BY DEF SsoInv
    <2>2. LogoutOn(l)' = LogoutOn(l) /\ RowsOf(l)' = RowsOf(l)
      BY <1>3 DEF LogoutOn, RowsOf, LoginOf
    <2>3. CASE l = k
      <3>1. FetchOn(f, l) /\ ~LogoutOn(l) /\ \A g \in Fetches : FetchOn(g, l) => g = f
        BY <1>1, <2>1, <2>3 DEF OneRequest, FetchOn
      <3>2. (\A g \in Fetches : ~FetchOn(g, l)') /\ CookieOn(l)'
        BY <1>1, <1>2, <1>3, <1>4, <1>5, <2>3, <3>1 DEF FetchOn, CookieOn, LoginOf
      <3>3. session[n].row /\ Expected(f) = {n}
        BY <1>1, <2>1, <3>1 DEF RowsStand, Expected
      <3>4. OneRequest(l)' /\ RowsStand(l)'
        BY <1>3, <2>2, <3>1, <3>2, <3>3 DEF OneRequest, RowsStand
      <3>5. l \notin broken' => NoRowsMore(l)'
        BY <1>3, <2>1, <2>2, <3>1, <3>2, <3>3 DEF NoRowsMore
      <3> QED
        BY <3>4, <3>5
    <2>4. CASE l # k
      <3>1. ~FetchOn(f, l) /\ ~FetchOn(f, l)' /\ ~CookieOn(l)'
        BY <1>1, <1>3, <1>4, <1>5, <2>4 DEF FetchOn, CookieOn, LoginOf
      <3>2. \A g \in Fetches : FetchOn(g, l)' = FetchOn(g, l) /\ (FetchOn(g, l) => fetch'[g] = fetch[g])
        BY <1>3, <1>5, <3>1 DEF FetchOn, LoginOf
      <3>3. \A g \in Fetches : FetchOn(g, l) => Expected(g)' = Expected(g)
        BY <3>2 DEF Expected
      <3>4. OneRequest(l)' /\ RowsStand(l)'
        BY <1>3, <2>1, <2>2, <3>1, <3>2 DEF OneRequest, RowsStand
      <3>5. l \notin broken' => NoRowsMore(l)'
        BY <1>3, <2>1, <2>2, <3>1, <3>2, <3>3 DEF NoRowsMore
      <3> QED
        BY <3>4, <3>5
    <2> QED
      BY <2>3, <2>4
  <1> QED
    BY <1>3, <1>6, <1>7 DEF SsoInv, LoginsMade

LEMMA LogoutRemovesKeeps ==
  ASSUME SsoInv, LogoutRemoves
  PROVE  SsoInv'
  <1> DEFINE h == logout.handle
             k == LoginOf(h)
  <1>1. SsoTyped /\ logout.pc = "sent" /\ h \in DOMAIN session /\ h # 0
    BY DEF SsoInv, SsoTyped, LogoutRemoves
  <1>2. /\ RemoveByHandle(h) /\ logout'.pc = "removed" /\ logout'.handle = h
        /\ logout' \in [pc : {"none", "sent", "removed"}, handle : Nat]
        /\ UNCHANGED <<refreshCookie, fetch, left, atOnce, broken>>
    BY <1>1 DEF LogoutRemoves, SsoTyped
  <1>3. /\ session' \in Seq(Rows) /\ DOMAIN session' = DOMAIN session
        /\ \A x \in DOMAIN session : session'[x].login = session[x].login
        /\ ~session'[h].row
        /\ \A x \in DOMAIN session : x # h => session'[x] = session[x]
        /\ LoginsMade' = LoginsMade
    BY <1>1, <1>2, HandleRemoved
  <1>4. SsoTyped'
    <2>1. \A g \in Fetches :
            /\ fetch[g].handle \in {0} \union DOMAIN session
            /\ fetch[g].pc \in ServerSteps => fetch[g].handle # 0
            /\ fetch[g].pc \in {"none", "401", "retry"} => fetch[g].handle = 0
            /\ fetch[g].pc \in {"remove", "answer"} =>
                 /\ fetch[g].next \in DOMAIN session /\ fetch[g].next # fetch[g].handle
                 /\ fetch[g].handle \in DOMAIN session
                 /\ session[fetch[g].next].login = session[fetch[g].handle].login
      BY <1>1 DEF SsoTyped, LoginOf, ServerSteps
    <2>2. left' \union atOnce' \union broken' \subseteq LoginsMade' /\ \E j \in Nat : LoginsMade' = 1..j
      BY <1>1, <1>2, <1>3 DEF SsoTyped
    <2> QED
      BY <1>1, <1>2, <1>3, <2>1, <2>2 DEF SsoTyped, LoginOf
  <1>5. ASSUME NEW l \in LoginsMade \ atOnce
        PROVE  OneRequest(l)' /\ RowsStand(l)' /\ (l \notin broken' => NoRowsMore(l)')
    <2>1. OneRequest(l) /\ RowsStand(l) /\ (l \notin broken => NoRowsMore(l))
      BY DEF SsoInv
    <2>2. CASE l = k
      <3>1. LogoutOn(l) /\ \A g \in Fetches : ~FetchOn(g, l)
        BY <1>1, <2>1, <2>2 DEF OneRequest, LogoutOn
      <3>2. /\ LogoutOn(l)' /\ CookieOn(l)' = CookieOn(l) /\ \A g \in Fetches : ~FetchOn(g, l)'
        BY <1>1, <1>2, <1>3, <2>2, <3>1 DEF FetchOn, LogoutOn, CookieOn, LoginOf, SsoTyped
      <3>3. RowsOf(l)' = RowsOf(l) \ {h}
        BY <1>3 DEF RowsOf, LoginOf
      <3>4. OneRequest(l)' /\ RowsStand(l)'
        BY <1>2, <2>1, <3>1, <3>2 DEF OneRequest, RowsStand
      <3>5. l \notin broken' => NoRowsMore(l)'
        BY <1>1, <1>2, <2>1, <3>1, <3>2, <3>3 DEF NoRowsMore
      <3> QED
        BY <3>4, <3>5
    <2>3. CASE l # k
      <3>1. ~LogoutOn(l) /\ ~LogoutOn(l)'
        BY <1>1, <1>2, <1>3, <2>3 DEF LogoutOn, LoginOf
      <3> QED
        BY <1>1, <1>2, <1>3, <2>1, <2>3, <3>1, LoginUndisturbed
    <2> QED
      BY <2>2, <2>3
  <1> QED
    BY <1>2, <1>3, <1>4, <1>5 DEF SsoInv

(* A logout is answered, or lost: it is over, and its login has left or has     *)
(* lost an answer.                                                             *)
LEMMA LogoutEndsKeeps ==
  ASSUME SsoInv, LogoutAnswered \/ LogoutLost
  PROVE  SsoInv'
  <1> DEFINE h == logout.handle
             k == LoginOf(h)
  <1>1. /\ SsoTyped /\ h \in DOMAIN session /\ h # 0 /\ k \in LoginsMade
        /\ logout'.pc = "none" /\ logout'.handle = 0
        /\ logout' \in [pc : {"none", "sent", "removed"}, handle : Nat]
        /\ UNCHANGED <<session, fetch, broken>>
    <2>1. SsoTyped /\ logout.pc # "none"
      BY DEF SsoInv, LogoutAnswered, LogoutLost
    <2>2. h \in DOMAIN session /\ h # 0
      BY <2>1 DEF SsoTyped
    <2>3. logout' = [pc |-> "none", handle |-> 0]
      BY DEF LogoutAnswered, LogoutLost, NoLogout
    <2> QED
      BY <2>1, <2>2, <2>3, SessionIsTyped DEF LogoutAnswered, LogoutLost
  <1>2. \/ /\ logout.pc = "removed" /\ refreshCookie' = 0 /\ left' = left \union {k}
           /\ UNCHANGED atOnce
        \/ UNCHANGED <<refreshCookie, left>> /\ atOnce' = atOnce \union {k}
    BY DEF LogoutAnswered, LogoutLost
  <1>3. LoginsMade' = LoginsMade /\ \A x : LoginOf(x)' = LoginOf(x)
    BY <1>1 DEF LoginsMade, LoginOf
  <1>4. SsoTyped'
    <2>1. left' \union atOnce' \union broken' \subseteq LoginsMade
      BY <1>1, <1>2 DEF SsoTyped
    <2>2. refreshCookie' \in {0} \union DOMAIN session
      BY <1>1, <1>2 DEF SsoTyped
    <2> QED
      BY <1>1, <1>3, <2>1, <2>2 DEF SsoTyped, LoginOf
  <1>5. ASSUME NEW l \in LoginsMade \ atOnce'
        PROVE  OneRequest(l)' /\ RowsStand(l)' /\ (l \notin broken' => NoRowsMore(l)')
    <2>1. l \notin atOnce /\ OneRequest(l) /\ RowsStand(l) /\ (l \notin broken => NoRowsMore(l))
      BY <1>2 DEF SsoInv
    <2>2. /\ ~LogoutOn(l)' /\ RowsOf(l)' = RowsOf(l) /\ (CookieOn(l)' => CookieOn(l))
          /\ CookieOn(l)' => refreshCookie' = refreshCookie
          /\ \A g \in Fetches : FetchOn(g, l)' = FetchOn(g, l) /\ Expected(g)' = Expected(g)
      BY <1>1, <1>2 DEF LogoutOn, RowsOf, CookieOn, FetchOn, Expected, LoginOf
    <2>3. CASE l = k
      <3>1. logout.pc = "removed" /\ refreshCookie' = 0 /\ ~CookieOn(l)'
        BY <1>2, <2>3 DEF CookieOn
      <3>2. LogoutOn(l) /\ \A g \in Fetches : ~FetchOn(g, l)
        BY <1>1, <2>1, <2>3 DEF OneRequest, LogoutOn
      <3>3. OneRequest(l)' /\ RowsStand(l)'
        BY <2>2, <3>1, <3>2 DEF OneRequest, RowsStand
      <3>4. l \notin broken' => NoRowsMore(l)'
        BY <1>1, <2>1, <2>2, <3>1, <3>2 DEF NoRowsMore
      <3> QED
        BY <3>3, <3>4
    <2>4. CASE l # k
      <3>1. ~LogoutOn(l) /\ (l \in left' => l \in left)
        BY <1>2, <2>4 DEF LogoutOn
      <3>2. OneRequest(l)'
        BY <1>1, <2>1, <2>2 DEF OneRequest
      <3>3. RowsStand(l)'
        BY <1>1, <2>1, <2>2, <3>1 DEF RowsStand
      <3>4. l \notin broken' => NoRowsMore(l)'
        BY <1>1, <2>1, <2>2, <3>1 DEF NoRowsMore
      <3> QED
        BY <3>2, <3>3, <3>4
    <2> QED
      BY <2>3, <2>4
  <1> QED
    BY <1>3, <1>4, <1>5 DEF SsoInv

LEMMA SsoStep == SsoInv /\ [SsoNext]_ssoVars => SsoInv'
  <1> SUFFICES ASSUME SsoInv, [SsoNext]_ssoVars PROVE SsoInv'
    OBVIOUS
  <1>1. SsoTyped
    BY DEF SsoInv
  <1>2. ASSUME Login PROVE SsoInv'
    BY <1>2, LoginKeeps
  <1>3. ASSUME TokenAges \/ UNCHANGED ssoVars PROVE SsoInv'
    <2>1. UNCHANGED <<refreshCookie, session, fetch, logout, left, atOnce, broken>>
      BY <1>3 DEF TokenAges, ssoVars
    <2>2. SsoTyped'
      BY SMTT(30), <1>1, <2>1 DEF SsoTyped, LoginOf, LoginsMade
    <2>3. \A l \in LoginsMade \ atOnce :
            OneRequest(l)' /\ RowsStand(l)' /\ (l \notin broken' => NoRowsMore(l)')
      BY <1>1, <2>1, LoginUndisturbed DEF SsoInv, FetchOn, LogoutOn, CookieOn, LoginOf
    <2> QED
      BY <2>1, <2>2, <2>3 DEF SsoInv, LoginsMade
  <1>4. ASSUME SendLogout \/ LogoutRemoves \/ LogoutAnswered \/ LogoutLost PROVE SsoInv'
    BY <1>4, SendLogoutKeeps, LogoutRemovesKeeps, LogoutEndsKeeps
  <1>5. ASSUME NEW f \in Fetches, Meets401(f) PROVE SsoInv'
    <2>1. fetch[f].handle = 0 /\ fetch[f].pc = "none"
      BY <1>1, <1>5 DEF SsoTyped, Meets401, FetchAt
    <2> QED
      BY <1>5, <2>1, FetchMoves DEF Meets401, FetchPcs, ServerSteps
  <1>6. ASSUME NEW f \in Fetches, SendRefresh(f) PROVE SsoInv'
    <2>1. fetch[f].pc = "401"
      BY <1>6 DEF SendRefresh, FetchAt
    <2>2. CASE refreshCookie = 0
      BY <1>6, <2>1, <2>2, FetchMoves DEF SendRefresh, FetchPcs, ServerSteps
    <2>3. CASE refreshCookie # 0
      BY <1>6, <2>1, <2>3, SendKeeps DEF FetchAt
    <2> QED
      BY <2>2, <2>3
  <1>7. ASSUME NEW f \in Fetches, GetByHandle(f) \/ CognitoAnswers(f)
        PROVE  \E pc \in {"cognito", "put", "refused"} :
                 fetch[f].pc \in {"get", "cognito"} /\ FetchTo(f, pc)
    BY <1>7 DEF GetByHandle, CognitoAnswers, FetchAt
  <1>8. ASSUME NEW f \in Fetches, GetByHandle(f) \/ CognitoAnswers(f) PROVE SsoInv'
    <2>1. PICK pc \in {"cognito", "put", "refused"} :
            fetch[f].pc \in {"get", "cognito"} /\ FetchTo(f, pc)
      BY <1>7, <1>8
    <2>2. fetch[f].handle # 0
      BY <1>1, <2>1 DEF SsoTyped, ServerSteps
    <2>3. UNCHANGED <<refreshCookie, session, logout, left, atOnce, broken>>
      BY <1>8 DEF GetByHandle, CognitoAnswers
    <2> QED
      BY <2>1, <2>2, <2>3, FetchMoves DEF FetchPcs, ServerSteps
  <1>9. ASSUME NEW f \in Fetches, PutNext(f) \/ RemoveOld(f) \/ RefreshAnswered(f) PROVE SsoInv'
    BY <1>9, PutNextKeeps, RemoveOldKeeps, AnsweredKeeps
  <1>10. ASSUME NEW f \in Fetches, AnswerLost(f) \/ RefreshFails(f) \/ FetchDone(f) PROVE SsoInv'
    <2>1. \E c \in Refreshes : c.handle = 0 /\ c.pc \notin ServerSteps
                             /\ fetch' = [fetch EXCEPT ![f] = c]
      <3>1. /\ Waiting \in Refreshes /\ Waiting.handle = 0 /\ Waiting.pc \notin ServerSteps
            /\ [Waiting EXCEPT !.pc = "refused"] \in Refreshes
            /\ [Waiting EXCEPT !.pc = "refused"].handle = 0
            /\ [Waiting EXCEPT !.pc = "refused"].pc \notin ServerSteps
        BY DEF Waiting, Refreshes, FetchPcs, ServerSteps
      <3> QED
        BY <1>10, <3>1 DEF AnswerLost, RefreshFails, FetchDone, FetchEnds
    <2>2. fetch[f].pc \in ServerSteps => LoginOf(fetch[f].handle) \in LoginsMade
      BY <1>1, SessionIsTyped DEF SsoTyped
    <2>3. /\ atOnce \subseteq atOnce' /\ broken \subseteq broken'
          /\ atOnce' \union broken' \subseteq LoginsMade
          /\ fetch[f].pc = "answer" => LoginOf(fetch[f].handle) \in atOnce'
          /\ fetch[f].pc = "remove" => LoginOf(fetch[f].handle) \in broken'
          /\ UNCHANGED <<refreshCookie, session, logout, left>>
      <3>1. CASE AnswerLost(f)
        BY <1>1, <2>2, <3>1 DEF AnswerLost, FetchAt, ServerSteps, SsoTyped
      <3>2. CASE RefreshFails(f)
        BY <1>1, <2>2, <3>2 DEF RefreshFails, ServerSteps, SsoTyped
      <3>3. CASE FetchDone(f)
        BY <1>1, <3>3 DEF FetchDone, FetchAt, SsoTyped
      <3> QED
        BY <1>10, <3>1, <3>2, <3>3
    <2> QED
      BY <2>1, <2>3, FetchLeaves
  <1> QED
    BY <1>2, <1>3, <1>4, <1>5, <1>6, <1>8, <1>9, <1>10 DEF SsoNext

LEMMA SsoInvariant == SsoSpec => []SsoInv
  BY SsoInitInv, SsoStep, PTL DEF SsoSpec

(* The handle of the browser's cookie has its row when nothing is on its way,  *)
(* and a login that was left has no row: for any number of pages and fetches,  *)
(* wherever a refresh fails.                                                   *)
THEOREM SessionsHold == SsoSpec => []SessionHolds
  <1>1. SsoInv => HandleIsLive
    <2> SUFFICES ASSUME SsoInv, refreshCookie # 0, logout.pc = "none",
                        \A f \in Fetches : fetch[f].handle = 0,
                        LoginOf(refreshCookie) \notin atOnce
                 PROVE  session[refreshCookie].row
      BY DEF HandleIsLive
    <2>1. SsoTyped /\ LoginOf(refreshCookie) \in LoginsMade
      BY SessionIsTyped DEF SsoInv, SsoTyped
    <2>2. RowsStand(LoginOf(refreshCookie)) /\ logout.handle = 0
      BY <2>1 DEF SsoInv, SsoTyped
    <2> QED
      BY <2>2 DEF RowsStand, CookieOn, LogoutOn, FetchOn
  <1>2. SsoInv => LogoutEndsSession
    <2> SUFFICES ASSUME SsoInv, NEW h \in DOMAIN session,
                        LoginOf(h) \in left \ (atOnce \union broken)
                 PROVE  ~session[h].row
      BY DEF LogoutEndsSession
    <2>1. LoginOf(h) \in LoginsMade
      BY SessionIsTyped DEF SsoInv
    <2>2. RowsOf(LoginOf(h)) = {}
      BY <2>1 DEF SsoInv, NoRowsMore
    <2> QED
      BY <2>2 DEF RowsOf
  <1> QED
    BY <1>1, <1>2, SsoInvariant, PTL DEF SessionHolds

-----------------------------------------------------------------------------
(* The gateway.  Each request works on at most one execution, and each         *)
(* execution is worked on by at most one request.                              *)

TokenPcs == {"forget", "discover", "exchange", "store"}
GatewayPcs == {"none"} \union TokenPcs \union RuntimePcs
Working(q) == gcall[q].pc \in RuntimePcs
Logins == [server : Servers, state : {"pending", "done"}]
Executions ==
  [branch : {"none", "open", "closed"}, input : BOOLEAN, wanted : BOOLEAN, moved : BOOLEAN,
   tool : {"not run", "done", "failed"}, landed : BOOLEAN, answer : {"none", "ok", "error"},
   excused : BOOLEAN]
Requests == [pc : GatewayPcs, server : Servers \union {"none"}, n : Nat]

GatewayTyped ==
  /\ registered \subseteq allocated /\ allocated \subseteq Servers
  /\ token \in [Servers -> {"none", "live", "expired"}]
  /\ login \in Seq(Logins) /\ runtime \in Seq(Executions)
  /\ gcall \in [GatewayCalls -> Requests]
  /\ \A q \in GatewayCalls :
       /\ gcall[q].pc \in TokenPcs => gcall[q].server \in Servers
       /\ AtCall(q, "exchange") \/ AtCall(q, "store") => gcall[q].n \in DOMAIN login
       /\ Working(q) => gcall[q].n \in DOMAIN runtime

(* A removed server is being forgotten still, or has no token and no login that *)
(* could bring it one.                                                          *)
Forgotten ==
  \A s \in allocated \ registered :
    \/ s \in crossed
    \/ \E q \in GatewayCalls : AtCall(q, "forget") /\ gcall[q].server = s
    \/ token[s] = "none" /\ ~UnderWay(s)

(* What an execution is, when its request is at pc *)
Fits(pc, e) ==
  /\ e.answer = "none"
  /\ pc \in {"list", "create"} => e.branch = "none"
  /\ pc \in {"list", "create", "parent", "input", "run"} => e.tool = "not run" /\ ~e.landed
  /\ pc \in {"run", "output", "close"} => (e.input => e.moved)
  /\ pc \in {"output", "close"} => e.tool = "done"
  /\ pc = "close" => (e.wanted => e.landed)

Sound(e) ==
  /\ e.landed => e.tool = "done" /\ (e.input => e.moved)
  /\ e.answer = "ok" => e.tool = "done" /\ (e.wanted => e.landed)

Attended(n) == \E q \in GatewayCalls : Working(q) /\ gcall[q].n = n

RuntimeInv ==
  /\ \A n \in DOMAIN runtime :
       /\ Sound(runtime[n])
       /\ runtime[n].branch = "open" /\ ~runtime[n].excused => Attended(n)
  /\ \A q \in GatewayCalls : Working(q) =>
       /\ Fits(gcall[q].pc, runtime[gcall[q].n])
       /\ \A r \in GatewayCalls : Working(r) /\ gcall[r].n = gcall[q].n => r = q

GatewayInv == GatewayTyped /\ Forgotten /\ RuntimeInv

LEMMA GatewayInitInv == GatewayInit => GatewayInv
  <1> SUFFICES ASSUME GatewayInit PROVE GatewayInv
    OBVIOUS
  <1>1. GatewayTyped
    BY DEF GatewayInit, GatewayTyped, NoRequest, Requests, GatewayPcs, RuntimePcs, TokenPcs, AtCall,
       Working
  <1>2. Forgotten /\ RuntimeInv
    BY DEF GatewayInit, Forgotten, RuntimeInv, NoRequest, Working, RuntimePcs
  <1> QED
    BY <1>1, <1>2 DEF GatewayInv

(* A request moves, to a place of its own kind. *)
LEMMA RequestAfter ==
  ASSUME GatewayTyped, NEW q \in GatewayCalls, NEW c \in Requests,
         gcall' = [gcall EXCEPT ![q] = c]
  PROVE  /\ gcall' \in [GatewayCalls -> Requests] /\ gcall'[q] = c
         /\ \A r \in GatewayCalls : r # q => gcall'[r] = gcall[r]
  BY DEF GatewayTyped

LEMMA RequestMoves ==
  ASSUME GatewayTyped, NEW q \in GatewayCalls, NEW pc \in GatewayPcs, CallGoes(q, pc)
  PROVE  /\ gcall' \in [GatewayCalls -> Requests]
         /\ gcall'[q].pc = pc /\ gcall'[q].n = gcall[q].n /\ gcall'[q].server = gcall[q].server
         /\ \A r \in GatewayCalls : r # q => gcall'[r] = gcall[r]
  BY DEF GatewayTyped, CallGoes, Requests

LEMMA RequestEnds ==
  ASSUME GatewayTyped, NEW q \in GatewayCalls, CallEnds(q)
  PROVE  /\ gcall' \in [GatewayCalls -> Requests] /\ gcall'[q].pc = "none"
         /\ \A r \in GatewayCalls : r # q => gcall'[r] = gcall[r]
  BY DEF GatewayTyped, CallEnds, NoRequest, Requests, GatewayPcs

(* What a step of the runtime leaves of the tokens' part *)
LEMMA RuntimeLeavesTokens ==
  ASSUME GatewayInv, NEW q \in GatewayCalls, gcall[q].pc \notin TokenPcs,
         gcall' \in [GatewayCalls -> Requests], gcall'[q].pc \notin TokenPcs,
         \A r \in GatewayCalls : r # q => gcall'[r] = gcall[r],
         runtime' \in Seq(Executions), Working(q)' => gcall'[q].n \in DOMAIN runtime',
         DOMAIN runtime \subseteq DOMAIN runtime',
         UNCHANGED <<allocated, registered, token, login, crossed>>
  PROVE  GatewayTyped' /\ Forgotten'
  <1>1. GatewayTyped'
    BY DEF GatewayInv, GatewayTyped, AtCall, Working, TokenPcs
  <1>2. \A s : UnderWay(s)' => UnderWay(s)
    BY DEF UnderWay, TokenPcs
  <1>3. \A s, r : r \in GatewayCalls /\ AtCall(r, "forget") /\ gcall[r].server = s
                  => AtCall(r, "forget")' /\ gcall'[r].server = s
    BY DEF AtCall, TokenPcs
  <1>4. Forgotten'
    BY <1>2, <1>3 DEF GatewayInv, Forgotten
  <1> QED
    BY <1>1, <1>4

(* What the other steps leave of the runtime's part *)
LEMMA TokensLeaveRuntime ==
  ASSUME GatewayInv, UNCHANGED runtime,
         \A r \in GatewayCalls : gcall'[r] # gcall[r] => ~Working(r) /\ ~Working(r)'
  PROVE  RuntimeInv'
  <1>1. \A r \in GatewayCalls : Working(r)' = Working(r) /\ (Working(r) => gcall'[r] = gcall[r])
    BY DEF Working
  <1>2. \A n : Attended(n) => Attended(n)'
    BY <1>1 DEF Attended
  <1> QED
    BY <1>1, <1>2 DEF GatewayInv, RuntimeInv

(* A request gives its execution the fields of e, and goes on or ends. *)
LEMMA ExecutionKeeps ==
  ASSUME GatewayInv, NEW q \in GatewayCalls, Working(q), NEW e \in Executions, Sound(e),
         runtime' = [runtime EXCEPT ![gcall[q].n] = e],
         \/ CallEnds(q) /\ (e.branch = "open" => e.excused)
         \/ \E pc \in RuntimePcs : CallGoes(q, pc) /\ Fits(pc, e),
         UNCHANGED <<allocated, registered, token, login, crossed>>
  PROVE  GatewayInv'
  <1> DEFINE n == gcall[q].n
  <1>1. GatewayTyped /\ RuntimeInv /\ n \in DOMAIN runtime /\ runtime \in Seq(Executions)
    BY DEF GatewayInv, GatewayTyped
  <1>2. /\ runtime' \in Seq(Executions) /\ DOMAIN runtime' = DOMAIN runtime
        /\ runtime'[n] = e
        /\ \A m \in DOMAIN runtime : m # n => runtime'[m] = runtime[m]
    BY <1>1, ExceptSeq
  <1>3. /\ gcall' \in [GatewayCalls -> Requests]
        /\ \A r \in GatewayCalls : r # q => gcall'[r] = gcall[r]
        /\ \/ gcall'[q].pc = "none" /\ (e.branch = "open" => e.excused)
           \/ gcall'[q].pc \in RuntimePcs /\ gcall'[q].n = n /\ Fits(gcall'[q].pc, e)
    BY <1>1, RequestEnds, RequestMoves DEF GatewayPcs
  <1>4. GatewayTyped' /\ Forgotten'
    BY <1>1, <1>2, <1>3, RuntimeLeavesTokens DEF Working, RuntimePcs, TokenPcs
  <1>5. \A r \in GatewayCalls : Working(r)' => Working(r) /\ gcall'[r].n = gcall[r].n
    BY <1>3 DEF Working, RuntimePcs
  <1>6. \A m \in DOMAIN runtime : m # n /\ Attended(m) => Attended(m)'
    BY <1>3 DEF Attended, Working
  <1>7. gcall'[q].pc \in RuntimePcs => Attended(n)'
    BY <1>3 DEF Attended, Working
  <1>8. RuntimeInv'
    <2>1. ASSUME NEW m \in DOMAIN runtime'
          PROVE  /\ Sound(runtime'[m])
                 /\ runtime'[m].branch = "open" /\ ~runtime'[m].excused => Attended(m)'
      BY <1>1, <1>2, <1>3, <1>6, <1>7 DEF RuntimeInv
    <2>2. ASSUME NEW r \in GatewayCalls, Working(r)'
          PROVE  /\ Fits(gcall'[r].pc, runtime'[gcall'[r].n])
                 /\ \A x \in GatewayCalls : Working(x)' /\ gcall'[x].n = gcall'[r].n => x = r
      <3>1. \A x \in GatewayCalls : Working(x)' /\ gcall'[x].n = gcall'[r].n => x = r
        BY <1>1, <1>5, <2>2 DEF RuntimeInv
      <3>2. CASE r = q
        BY <1>2, <1>3, <2>2, <3>1, <3>2 DEF Working, RuntimePcs
      <3>3. CASE r # q
        <4>1. gcall'[r] = gcall[r] /\ Working(r) /\ gcall[r].n # n /\ gcall[r].n \in DOMAIN runtime
          BY <1>1, <1>3, <1>5, <2>2, <3>3 DEF RuntimeInv, GatewayTyped
        <4> QED
          BY <1>1, <1>2, <3>1, <4>1 DEF RuntimeInv
      <3> QED
        BY <3>2, <3>3
    <2> QED
      BY <2>1, <2>2 DEF RuntimeInv
  <1> QED
    BY <1>4, <1>8 DEF GatewayInv

(* The steps of a runtime execution *)
LEMMA RuntimeKeeps ==
  ASSUME GatewayInv, NEW q \in GatewayCalls,
         \/ FindDrive(q) \/ CreateRuntimeBranch(q) \/ ResolveParent(q) \/ TransferInput(q)
         \/ RunTool(q) \/ TransferOutput(q) \/ CloseRuntimeBranch(q)
  PROVE  GatewayInv'
  <1>1. /\ gcall[q].pc \in RuntimePcs /\ Working(q) /\ Execution(q) \in Executions
        /\ Fits(gcall[q].pc, Execution(q)) /\ Sound(Execution(q))
    <2>1. gcall[q].pc \in RuntimePcs /\ Working(q)
      BY DEF FindDrive, CreateRuntimeBranch, ResolveParent, TransferInput, RunTool, TransferOutput,
         CloseRuntimeBranch, AtCall, Working, RuntimePcs
    <2>2. runtime \in Seq(Executions) /\ gcall[q].n \in DOMAIN runtime
      BY <2>1 DEF GatewayInv, GatewayTyped
    <2>3. Execution(q) \in Executions
      BY <2>2, ElementOfSeq DEF Execution
    <2> QED
      BY <2>1, <2>2, <2>3 DEF GatewayInv, RuntimeInv, Execution
  <1>2. ASSUME NEW e \in Executions, Sound(e), NEW pc \in RuntimePcs, Fits(pc, e),
               RuntimeStep(q, pc, e)
        PROVE  GatewayInv'
    BY <1>1, <1>2, ExecutionKeeps DEF RuntimeStep
  <1>3. ASSUME NEW e \in Executions, Sound(e), e.branch = "open" => e.excused,
               RuntimeAnswers(q, e)
        PROVE  GatewayInv'
    BY <1>1, <1>3, ExecutionKeeps DEF RuntimeAnswers
  <1> DEFINE x == Execution(q)
  <1> HIDE DEF x
  <1>4. CASE FindDrive(q)
    <2>1. [x EXCEPT !.answer = "error"] \in Executions /\ Sound([x EXCEPT !.answer = "error"])
      BY <1>1 DEF x, Executions, Sound
    <2>2. gcall[q].pc = "list" /\ x.branch = "none" /\ Fits("create", x)
      BY <1>1, <1>4 DEF x, Fits, FindDrive, AtCall
    <2>3. [x EXCEPT !.answer = "error"].branch = "none"
      BY <1>1, <2>2 DEF x, Executions
    <2> QED
      BY <1>1, <1>2, <1>3, <1>4, <2>1, <2>2, <2>3 DEF FindDrive, RuntimePcs, x
  <1>5. CASE CreateRuntimeBranch(q)
    <2> DEFINE a == [x EXCEPT !.branch = "open"]
               b == [x EXCEPT !.branch = "open", !.excused = TRUE, !.answer = "error"]
               c == [x EXCEPT !.answer = "error"]
    <2>1. /\ gcall[q].pc = "create" /\ x.branch = "none" /\ x.answer = "none"
          /\ x.tool = "not run" /\ ~x.landed
      BY <1>1, <1>5 DEF x, Fits, CreateRuntimeBranch, AtCall
    <2>2. a \in Executions /\ Sound(a) /\ Fits("parent", a)
      BY <1>1, <2>1 DEF x, Executions, Sound, Fits
    <2>3. b \in Executions /\ Sound(b) /\ b.excused
      BY <1>1, <2>1 DEF x, Executions, Sound
    <2>4. c \in Executions /\ Sound(c) /\ c.branch = "none"
      BY <1>1, <2>1 DEF x, Executions, Sound
    <2>5. RuntimeStep(q, "parent", a) \/ RuntimeAnswers(q, b) \/ RuntimeAnswers(q, c)
      BY <1>5 DEF CreateRuntimeBranch, x
    <2> HIDE DEF a, b, c
    <2> QED
      BY <1>2, <1>3, <2>2, <2>3, <2>4, <2>5 DEF RuntimePcs
  <1>6. CASE ResolveParent(q)
    <2> DEFINE b == [x EXCEPT !.excused = TRUE, !.answer = "error"]
    <2>1. gcall[q].pc = "parent" /\ x \in Executions /\ Sound(x) /\ Fits("parent", x)
      BY <1>1, <1>6 DEF x, ResolveParent, AtCall
    <2>2. b \in Executions /\ Sound(b) /\ b.excused
      BY <2>1 DEF Executions, Sound
    <2>3. \E pc \in {"input", "run"} : Fits(pc, x) /\ (RuntimeStep(q, pc, x) \/ RuntimeAnswers(q, b))
      BY <1>6, <2>1 DEF ResolveParent, x, Fits
    <2> HIDE DEF b
    <2> QED
      BY <1>2, <1>3, <2>1, <2>2, <2>3 DEF RuntimePcs
  <1>7. CASE TransferInput(q)
    <2> DEFINE a == [x EXCEPT !.moved = TRUE]
    <2>1. gcall[q].pc = "input" /\ x \in Executions /\ Sound(x) /\ Fits("input", x)
      BY <1>1, <1>7 DEF x, TransferInput, AtCall
    <2>2. a \in Executions /\ Sound(a) /\ Fits("run", a)
      BY <2>1 DEF Executions, Sound, Fits
    <2>3. RuntimeStep(q, "run", a) \/ RuntimeStep(q, "abort", x)
      BY <1>7 DEF TransferInput, x
    <2>4. Fits("abort", x)
      BY <2>1 DEF Fits
    <2> HIDE DEF a
    <2> QED
      BY <1>2, <2>1, <2>2, <2>3, <2>4 DEF RuntimePcs
  <1>8. CASE RunTool(q)
    <2> DEFINE a == [x EXCEPT !.tool = "done"]
               b == [x EXCEPT !.tool = "failed"]
    <2>1. gcall[q].pc = "run" /\ x \in Executions /\ Sound(x) /\ Fits("run", x)
      BY <1>1, <1>8 DEF x, RunTool, AtCall
    <2>2. a \in Executions /\ Sound(a) /\ Fits("output", a) /\ (~x.wanted => Fits("close", a))
      BY <2>1 DEF Executions, Sound, Fits
    <2>3. b \in Executions /\ Sound(b) /\ Fits("abort", b)
      BY <2>1 DEF Executions, Sound, Fits
    <2>4. \/ RuntimeStep(q, IF x.wanted THEN "output" ELSE "close", a)
          \/ RuntimeStep(q, "abort", b)
      BY <1>8 DEF RunTool, x
    <2> HIDE DEF a, b
    <2> QED
      BY <1>2, <2>2, <2>3, <2>4 DEF RuntimePcs
  <1>9. CASE TransferOutput(q)
    <2>1. gcall[q].pc = "output" /\ x \in Executions /\ Sound(x) /\ Fits("output", x)
      BY <1>1, <1>9 DEF x, TransferOutput, AtCall
    <2>2. \A done \in BOOLEAN :
            LET a == [x EXCEPT !.landed = done]
            IN  a \in Executions /\ Sound(a) /\ Fits("abort", a) /\ (done => Fits("close", a))
      BY <2>1 DEF Executions, Sound, Fits
    <2>3. \/ RuntimeStep(q, "close", [x EXCEPT !.landed = TRUE])
          \/ \E done \in BOOLEAN : RuntimeStep(q, "abort", [x EXCEPT !.landed = done])
      BY <1>9 DEF TransferOutput, x
    <2> QED
      BY <1>2, <2>2, <2>3 DEF RuntimePcs
  <1>10. CASE CloseRuntimeBranch(q)
    <2>1. x \in Executions /\ Sound(x) /\ Fits(gcall[q].pc, x)
      BY <1>1 DEF x
    <2>2. PICK closed \in BOOLEAN :
            /\ gcall[q].pc \in {"close", "abort"}
            /\ RuntimeAnswers(q, [x EXCEPT !.answer = IF gcall[q].pc = "close" THEN "ok" ELSE "error",
                                           !.branch = IF closed THEN "closed" ELSE "open",
                                           !.excused = ~closed])
      BY <1>10 DEF CloseRuntimeBranch, AtCall, x
    <2> DEFINE a == [x EXCEPT !.answer = IF gcall[q].pc = "close" THEN "ok" ELSE "error",
                              !.branch = IF closed THEN "closed" ELSE "open",
                              !.excused = ~closed]
    <2>3. a \in Executions /\ (a.branch = "open" => a.excused)
      BY <2>1 DEF Executions
    <2>4. Sound(a)
      BY <2>1, <2>2 DEF Executions, Sound, Fits
    <2>5. RuntimeAnswers(q, a)
      BY <2>2
    <2> HIDE DEF a
    <2> QED
      BY <1>3, <2>3, <2>4, <2>5
  <1> QED
    BY <1>4, <1>5, <1>6, <1>7, <1>8, <1>9, <1>10

LEMMA CallToolKeeps ==
  ASSUME GatewayInv, NEW q \in GatewayCalls, NEW s \in Servers,
         NEW input \in BOOLEAN, NEW wanted \in BOOLEAN, CallTool(q, s, input, wanted)
  PROVE  GatewayInv'
  <1> DEFINE e == NewRuntime(input, wanted)
             c == [pc |-> "list", server |-> s, n |-> Len(runtime) + 1]
  <1>1. GatewayTyped /\ RuntimeInv /\ runtime \in Seq(Executions) /\ gcall[q].pc = "none"
    BY DEF GatewayInv, GatewayTyped, CallTool, AtCall
  <1>2. /\ e \in Executions /\ Sound(e) /\ Fits("list", e) /\ e.branch = "none"
        /\ c \in Requests
    <2>1. e \in Executions
      BY DEF NewRuntime, Executions
    <2>2. /\ e.branch = "none" /\ e.tool = "not run" /\ e.landed = FALSE /\ e.answer = "none"
      BY DEF NewRuntime
    <2>3. Len(runtime) + 1 \in Nat /\ "list" \in GatewayPcs
      BY <1>1 DEF GatewayPcs, RuntimePcs
    <2>4. Sound(e) /\ Fits("list", e)
      BY <2>2 DEF Sound, Fits
    <2> QED
      BY <2>1, <2>2, <2>3, <2>4 DEF Requests
  <1>3. runtime' = Append(runtime, e) /\ gcall' = [gcall EXCEPT ![q] = c]
    BY DEF CallTool
  <1> HIDE DEF e
  <1>4. /\ runtime' \in Seq(Executions) /\ DOMAIN runtime' = 1..(Len(runtime) + 1)
        /\ DOMAIN runtime = 1..Len(runtime) /\ Len(runtime) \in Nat
        /\ runtime'[Len(runtime) + 1] = e
        /\ \A m \in 1..Len(runtime) : runtime'[m] = runtime[m]
    BY <1>1, <1>2, <1>3
  <1>5. /\ gcall' \in [GatewayCalls -> Requests]
        /\ gcall'[q].pc = "list" /\ gcall'[q].n = Len(runtime) + 1
        /\ \A r \in GatewayCalls : r # q => gcall'[r] = gcall[r]
    BY <1>1, <1>2, <1>3, RequestAfter
  <1>6. GatewayTyped' /\ Forgotten'
    BY <1>1, <1>4, <1>5, RuntimeLeavesTokens DEF CallTool, TokenPcs
  <1>7. \A r \in GatewayCalls :
          /\ Working(r) => r # q /\ gcall[r].n \in 1..Len(runtime)
          /\ Working(r)' => r = q \/ (Working(r) /\ gcall'[r] = gcall[r])
    BY <1>1, <1>4, <1>5 DEF Working, GatewayTyped, RuntimePcs
  <1>8. \A m \in 1..Len(runtime) : Attended(m) => Attended(m)'
    BY <1>5, <1>7 DEF Attended, Working
  <1>9. \A m \in DOMAIN runtime' :
          /\ Sound(runtime'[m])
          /\ runtime'[m].branch = "open" /\ ~runtime'[m].excused => Attended(m)'
    <2> SUFFICES ASSUME NEW m \in DOMAIN runtime'
                 PROVE  /\ Sound(runtime'[m])
                        /\ runtime'[m].branch = "open" /\ ~runtime'[m].excused => Attended(m)'
      OBVIOUS
    <2>1. CASE m = Len(runtime) + 1
      BY <1>2, <1>4, <2>1
    <2>2. CASE m # Len(runtime) + 1
      <3>1. m \in 1..Len(runtime)
        BY <1>4, <2>2
      <3> QED
        BY <1>1, <1>4, <1>8, <3>1 DEF RuntimeInv
    <2> QED
      BY <2>1, <2>2
  <1>10. \A r \in GatewayCalls : Working(r)' =>
           /\ Fits(gcall'[r].pc, runtime'[gcall'[r].n])
           /\ \A x \in GatewayCalls : Working(x)' /\ gcall'[x].n = gcall'[r].n => x = r
    <2> SUFFICES ASSUME NEW r \in GatewayCalls, Working(r)'
                 PROVE  /\ Fits(gcall'[r].pc, runtime'[gcall'[r].n])
                        /\ \A x \in GatewayCalls : Working(x)' /\ gcall'[x].n = gcall'[r].n => x = r
      OBVIOUS
    <2>1. CASE r = q
      <3>1. \A x \in GatewayCalls : Working(x)' /\ gcall'[x].n = gcall'[r].n => x = r
        BY <1>4, <1>5, <1>7, <2>1
      <3> QED
        BY <1>2, <1>4, <1>5, <2>1, <3>1
    <2>2. CASE r # q
      <3>1. Working(r) /\ gcall'[r] = gcall[r] /\ gcall[r].n \in 1..Len(runtime)
        BY <1>7, <2>2
      <3>2. \A x \in GatewayCalls : Working(x)' /\ gcall'[x].n = gcall'[r].n => x = r
        BY <1>1, <1>4, <1>5, <1>7, <3>1 DEF RuntimeInv
      <3> QED
        BY <1>1, <1>4, <3>1, <3>2 DEF RuntimeInv
    <2> QED
      BY <2>1, <2>2
  <1> QED
    BY <1>6, <1>9, <1>10 DEF GatewayInv, RuntimeInv

(* The steps of the registry and of the logins *)
LEMMA RegistryKeeps ==
  ASSUME GatewayInv, NEW s \in Servers, AddServer(s) \/ LogOutOf(s) \/ TokenExpires(s)
  PROVE  GatewayInv'
  <1>1. UNCHANGED <<login, runtime, gcall, crossed>>
    BY DEF AddServer, LogOutOf, TokenExpires
  <1>2. RuntimeInv'
    BY <1>1, TokensLeaveRuntime
  <1>3. GatewayTyped'
    BY <1>1 DEF GatewayInv, GatewayTyped, AddServer, LogOutOf, TokenExpires, AtCall, Working
  <1>4. /\ allocated' \ registered' \subseteq allocated \ registered
        /\ \A x \in Servers : token[x] = "none" => token'[x] = "none"
    BY DEF GatewayInv, GatewayTyped, AddServer, LogOutOf, TokenExpires
  <1>5. Forgotten'
    BY <1>1, <1>4 DEF GatewayInv, GatewayTyped, Forgotten, UnderWay, AtCall
  <1> QED
    BY <1>2, <1>3, <1>5 DEF GatewayInv

(* A request of the registry or of a login begins. *)
LEMMA BeginKeeps ==
  ASSUME GatewayInv, NEW q \in GatewayCalls, NEW s \in Servers, NEW n \in Nat,
         NEW pc \in {"forget", "discover", "exchange"}, AtCall(q, "none"),
         gcall' = [gcall EXCEPT ![q] = [pc |-> pc, server |-> s, n |-> n]],
         pc = "forget" => registered' = registered \ {s},
         pc = "discover" => s \in registered,
         pc = "exchange" => UnderWay(s) /\ n \in DOMAIN login,
         pc # "forget" => UNCHANGED registered,
         UNCHANGED <<allocated, token, login, runtime, crossed>>
  PROVE  GatewayInv'
  <1>1. GatewayTyped /\ gcall[q].pc = "none"
        /\ [pc |-> pc, server |-> s, n |-> n] \in Requests
    BY DEF GatewayInv, AtCall, Requests, GatewayPcs, TokenPcs
  <1>2. /\ gcall' \in [GatewayCalls -> Requests]
        /\ gcall'[q].pc = pc /\ gcall'[q].server = s /\ gcall'[q].n = n
        /\ \A r \in GatewayCalls : r # q => gcall'[r] = gcall[r]
    BY <1>1, RequestAfter
  <1>3. RuntimeInv'
    BY <1>1, <1>2, TokensLeaveRuntime DEF Working, RuntimePcs
  <1>4. GatewayTyped'
    BY <1>1, <1>2 DEF GatewayTyped, AtCall, Working, TokenPcs, RuntimePcs
  <1>5. Forgotten'
    <2> SUFFICES ASSUME NEW x \in allocated \ registered'
                 PROVE  \/ x \in crossed
                        \/ \E r \in GatewayCalls : gcall'[r].pc = "forget" /\ gcall'[r].server = x
                        \/ token[x] = "none" /\ ~UnderWay(x)'
      BY DEF Forgotten, AtCall
    <2>1. CASE pc = "forget" /\ x = s
      BY <1>2, <2>1
    <2>2. CASE ~(pc = "forget" /\ x = s)
      <3>1. x \in allocated \ registered
        BY <2>2
      <3>2. UnderWay(x)' => UnderWay(x)
        BY <1>1, <1>2, <2>2 DEF UnderWay
      <3>3. \A r \in GatewayCalls : AtCall(r, "forget") => gcall'[r] = gcall[r]
        BY <1>1, <1>2 DEF AtCall
      <3> QED
        BY <3>1, <3>2, <3>3 DEF GatewayInv, Forgotten, AtCall
    <2> QED
      BY <2>1, <2>2
  <1> QED
    BY <1>3, <1>4, <1>5 DEF GatewayInv

LEMMA LoginsKeep ==
  ASSUME GatewayInv, NEW q \in GatewayCalls,
         ForgetToken(q) \/ Discovered(q) \/ Exchanged(q) \/ StoreToken(q)
  PROVE  GatewayInv'
  <1>1. GatewayTyped /\ gcall[q].pc \in TokenPcs /\ UNCHANGED <<allocated, registered, runtime>>
    BY DEF GatewayInv, ForgetToken, Discovered, Exchanged, StoreToken, AtCall, TokenPcs
  <1>2. CallEnds(q) \/ (AtCall(q, "exchange") /\ CallGoes(q, "store"))
    BY DEF ForgetToken, Discovered, Exchanged, StoreToken
  <1>3. /\ gcall' \in [GatewayCalls -> Requests]
        /\ \A r \in GatewayCalls : r # q => gcall'[r] = gcall[r]
        /\ \/ gcall'[q].pc = "none"
           \/ /\ gcall[q].pc = "exchange" /\ gcall'[q].pc = "store"
              /\ gcall'[q].server = gcall[q].server /\ gcall'[q].n = gcall[q].n
    BY <1>1, <1>2, RequestEnds, RequestMoves DEF GatewayPcs, TokenPcs, AtCall
  <1>4. RuntimeInv'
    BY <1>1, <1>3, TokensLeaveRuntime DEF Working, RuntimePcs, TokenPcs
  <1>5. \A r \in GatewayCalls : Working(r)' => r # q /\ Working(r) /\ gcall'[r] = gcall[r]
    BY <1>3 DEF Working, RuntimePcs
  <1>6. gcall[q].server \in Servers /\ login \in Seq(Logins)
    BY <1>1 DEF GatewayTyped
  <1>7. CASE ForgetToken(q)
    <2>1. /\ gcall[q].pc = "forget" /\ gcall'[q].pc = "none" /\ UNCHANGED login
          /\ token' = [token EXCEPT ![gcall[q].server] = "none"]
          /\ crossed \subseteq crossed'
          /\ UnderWay(gcall[q].server) => gcall[q].server \in crossed'
      BY <1>3, <1>7 DEF ForgetToken, AtCall
    <2>2. GatewayTyped'
      BY <1>1, <1>3, <1>5, <1>6, <2>1 DEF GatewayTyped, AtCall, TokenPcs
    <2>3. \A x : UnderWay(x)' => UnderWay(x)
      BY <1>3, <2>1 DEF UnderWay
    <2>4. \A x \in Servers : token[x] = "none" \/ x = gcall[q].server => token'[x] = "none"
      BY <1>1, <2>1 DEF GatewayTyped
    <2>5. Forgotten'
      <3> SUFFICES ASSUME NEW x \in allocated \ registered
                   PROVE  \/ x \in crossed'
                          \/ \E r \in GatewayCalls : gcall'[r].pc = "forget" /\ gcall'[r].server = x
                          \/ token'[x] = "none" /\ ~UnderWay(x)'
        BY <1>1 DEF Forgotten, AtCall
      <3>1. CASE x = gcall[q].server
        BY <1>6, <2>1, <2>3, <2>4, <3>1
      <3>2. CASE x # gcall[q].server
        BY <1>1, <1>3, <2>1, <2>3, <2>4, <3>2 DEF GatewayInv, GatewayTyped, Forgotten, AtCall
      <3> QED
        BY <3>1, <3>2
    <2> QED
      BY <1>4, <2>2, <2>5 DEF GatewayInv
  <1>8. CASE ~ForgetToken(q)
    <2>1. /\ gcall[q].pc # "forget" /\ UNCHANGED crossed
          /\ gcall[q].pc \in {"discover", "exchange", "store"}
      BY <1>8 DEF Discovered, Exchanged, StoreToken, AtCall
    <2>2. /\ login' \in Seq(Logins) /\ DOMAIN login \subseteq DOMAIN login'
          /\ \A n \in DOMAIN login' :
               login'[n].state = "pending" =>
                 \/ login'[n].server = gcall[q].server
                 \/ /\ n \in DOMAIN login /\ login[n].state = "pending"
                    /\ login[n].server = login'[n].server
      <3>1. CASE Discovered(q)
        <4>1. login' = Append(login, [server |-> gcall[q].server, state |-> "pending"])
          BY <3>1 DEF Discovered
        <4>2. [server |-> gcall[q].server, state |-> "pending"] \in Logins
          BY <1>6 DEF Logins
        <4> QED
          BY <1>6, <4>1, <4>2
      <3>2. CASE Exchanged(q)
        BY <1>6, <3>2 DEF Exchanged
      <3>3. CASE StoreToken(q)
        <4>1. gcall[q].n \in DOMAIN login /\ login[gcall[q].n] \in Logins
          BY <1>1, <1>6, <3>3, ElementOfSeq DEF StoreToken, GatewayTyped
        <4>2. login' = [login EXCEPT ![gcall[q].n] = [login[gcall[q].n] EXCEPT !.state = "done"]]
          BY <3>3 DEF StoreToken
        <4> DEFINE y == [login[gcall[q].n] EXCEPT !.state = "done"]
        <4>3. y \in Logins /\ y.state = "done"
          BY <4>1 DEF Logins
        <4> HIDE DEF y
        <4>4. /\ login' \in Seq(Logins) /\ DOMAIN login' = DOMAIN login
              /\ login'[gcall[q].n] = y
              /\ \A n \in DOMAIN login : n # gcall[q].n => login'[n] = login[n]
          BY <1>6, <4>1, <4>2, <4>3, ExceptSeq DEF y
        <4> QED
          BY <4>3, <4>4
      <3> QED
        BY <1>8, <3>1, <3>2, <3>3
    <2>3. /\ token' \in [Servers -> {"none", "live", "expired"}]
          /\ \A x \in Servers : x # gcall[q].server => token'[x] = token[x]
      BY <1>1, <1>6, <1>8 DEF Discovered, Exchanged, StoreToken, GatewayTyped
    <2>4. GatewayTyped'
      BY <1>1, <1>3, <1>5, <2>2, <2>3 DEF GatewayTyped, AtCall, TokenPcs
    <2>5. UnderWay(gcall[q].server) /\ \A x : x # gcall[q].server /\ UnderWay(x)' => UnderWay(x)
      BY <1>3, <2>1, <2>2 DEF UnderWay
    <2>6. \A r \in GatewayCalls : AtCall(r, "forget") => gcall'[r] = gcall[r]
      BY <1>3, <2>1 DEF AtCall
    <2>7. Forgotten'
      <3> SUFFICES ASSUME NEW x \in allocated \ registered
                   PROVE  \/ x \in crossed
                          \/ \E r \in GatewayCalls : gcall'[r].pc = "forget" /\ gcall'[r].server = x
                          \/ token'[x] = "none" /\ ~UnderWay(x)'
        BY <1>1, <2>1 DEF Forgotten, AtCall
      <3>1. x \in Servers
        BY <1>1 DEF GatewayTyped
      <3> QED
        BY <2>3, <2>5, <2>6, <3>1 DEF GatewayInv, Forgotten, AtCall
    <2> QED
      BY <1>4, <2>4, <2>7 DEF GatewayInv
  <1> QED
    BY <1>7, <1>8

LEMMA LapsesKeep ==
  ASSUME GatewayInv, NEW n \in DOMAIN login, LoginLapses(n)
  PROVE  GatewayInv'
  <1>1. GatewayTyped /\ UNCHANGED <<allocated, registered, token, runtime, gcall, crossed>>
    BY DEF GatewayInv, LoginLapses
  <1>2. login \in Seq(Logins) /\ login[n] \in Logins
    BY <1>1, ElementOfSeq DEF GatewayTyped
  <1> DEFINE y == [login[n] EXCEPT !.state = "done"]
  <1>3. y \in Logins /\ y.state = "done" /\ login' = [login EXCEPT ![n] = y]
    BY <1>2 DEF Logins, LoginLapses
  <1> HIDE DEF y
  <1>4. /\ login' \in Seq(Logins) /\ DOMAIN login' = DOMAIN login /\ login'[n] = y
        /\ \A m \in DOMAIN login : m # n => login'[m] = login[m]
    BY <1>2, <1>3, ExceptSeq
  <1>5. RuntimeInv'
    BY <1>1, TokensLeaveRuntime
  <1>6. GatewayTyped'
    BY <1>1, <1>4 DEF GatewayTyped, AtCall, Working
  <1>7. \A x : UnderWay(x)' => UnderWay(x)
    BY <1>1, <1>3, <1>4 DEF UnderWay
  <1>8. Forgotten'
    BY <1>1, <1>7 DEF GatewayInv, Forgotten, AtCall
  <1> QED
    BY <1>5, <1>6, <1>8 DEF GatewayInv

(* A process ends: what it worked on is excused, what it forgot is crossed. *)
LEMMA FailureKeeps ==
  ASSUME GatewayInv, NEW q \in GatewayCalls, GatewayFails(q)
  PROVE  GatewayInv'
  <1>1. /\ GatewayTyped /\ RuntimeInv /\ gcall[q].pc # "none" /\ CallEnds(q)
        /\ UNCHANGED <<allocated, registered, token, login>>
        /\ crossed' = IF gcall[q].pc = "forget" THEN crossed \union {gcall[q].server} ELSE crossed
    BY DEF GatewayInv, GatewayFails, AtCall
  <1>2. /\ gcall' \in [GatewayCalls -> Requests] /\ gcall'[q].pc = "none"
        /\ \A r \in GatewayCalls : r # q => gcall'[r] = gcall[r]
    BY <1>1, RequestEnds
  <1>3. CASE gcall[q].pc \in TokenPcs
    <2>1. UNCHANGED runtime
      BY <1>3 DEF GatewayFails, TokenPcs
    <2>2. RuntimeInv'
      BY <1>2, <1>3, <2>1, TokensLeaveRuntime DEF Working, RuntimePcs, TokenPcs
    <2>3. GatewayTyped'
      BY <1>1, <1>2, <2>1 DEF GatewayTyped, AtCall, Working, TokenPcs, RuntimePcs
    <2>4. \A x : UnderWay(x)' => UnderWay(x)
      BY <1>1, <1>2 DEF UnderWay
    <2>5. Forgotten'
      <3> SUFFICES ASSUME NEW x \in allocated \ registered
                   PROVE  \/ x \in crossed'
                          \/ \E r \in GatewayCalls : gcall'[r].pc = "forget" /\ gcall'[r].server = x
                          \/ token[x] = "none" /\ ~UnderWay(x)'
        BY <1>1 DEF Forgotten, AtCall
      <3> QED
        BY <1>1, <1>2, <2>4 DEF GatewayInv, Forgotten, AtCall
    <2> QED
      BY <2>2, <2>3, <2>5 DEF GatewayInv
  <1>4. CASE gcall[q].pc \notin TokenPcs
    <2> DEFINE x == runtime[gcall[q].n]
               e == [x EXCEPT !.excused = TRUE]
    <2>1. Working(q) /\ gcall[q].n \in DOMAIN runtime /\ runtime \in Seq(Executions)
      BY <1>1, <1>4 DEF GatewayTyped, Working, Requests, GatewayPcs
    <2>2. x \in Executions /\ Sound(x)
      BY <1>1, <2>1, ElementOfSeq DEF RuntimeInv
    <2>3. e \in Executions /\ Sound(e) /\ e.excused
      BY <2>2 DEF Executions, Sound
    <2>4. runtime' = [runtime EXCEPT ![gcall[q].n] = e]
      BY <1>4 DEF GatewayFails, TokenPcs
    <2>5. UNCHANGED crossed
      BY <1>1, <1>4 DEF TokenPcs
    <2> HIDE DEF e
    <2> QED
      BY <1>1, <2>1, <2>3, <2>4, <2>5, ExecutionKeeps
  <1> QED
    BY <1>3, <1>4

LEMMA GatewayStep == GatewayInv /\ [GatewayNext]_gatewayVars => GatewayInv'
  <1> SUFFICES ASSUME GatewayInv, [GatewayNext]_gatewayVars PROVE GatewayInv'
    OBVIOUS
  <1>1. GatewayTyped
    BY DEF GatewayInv
  <1>2. ASSUME NEW s \in Servers, AddServer(s) \/ LogOutOf(s) \/ TokenExpires(s) PROVE GatewayInv'
    BY <1>2, RegistryKeeps
  <1>3. ASSUME NEW n \in DOMAIN login, LoginLapses(n) PROVE GatewayInv'
    BY <1>3, LapsesKeep
  <1>4. ASSUME NEW q \in GatewayCalls, NEW s \in Servers, RemoveRow(q, s) \/ StartLogin(q, s)
        PROVE  GatewayInv'
    BY <1>4, BeginKeeps DEF RemoveRow, StartLogin
  <1>5. ASSUME NEW q \in GatewayCalls, NEW s \in Servers \ DriveServers,
               NEW input \in BOOLEAN, NEW wanted \in BOOLEAN, CallTool(q, s, input, wanted)
        PROVE  GatewayInv'
    BY <1>5, CallToolKeeps
  <1>6. ASSUME NEW q \in GatewayCalls, NEW n \in DOMAIN login, Callback(q, n) PROVE GatewayInv'
    <2>1. login \in Seq(Logins) /\ login[n] \in Logins
      BY <1>1, ElementOfSeq DEF GatewayTyped
    <2>2. n \in Nat /\ login[n].server \in Servers
      BY <2>1 DEF Logins
    <2>3. UnderWay(login[n].server)
      BY <1>6 DEF Callback, UnderWay
    <2> QED
      BY <1>6, <2>2, <2>3, BeginKeeps DEF Callback
  <1>7. ASSUME NEW q \in GatewayCalls,
               ForgetToken(q) \/ Discovered(q) \/ Exchanged(q) \/ StoreToken(q)
        PROVE  GatewayInv'
    BY <1>7, LoginsKeep
  <1>8. ASSUME NEW q \in GatewayCalls,
               \/ FindDrive(q) \/ CreateRuntimeBranch(q) \/ ResolveParent(q) \/ TransferInput(q)
               \/ RunTool(q) \/ TransferOutput(q) \/ CloseRuntimeBranch(q)
        PROVE  GatewayInv'
    BY <1>8, RuntimeKeeps
  <1>9. ASSUME NEW q \in GatewayCalls, GatewayFails(q) PROVE GatewayInv'
    BY <1>9, FailureKeeps
  <1>10. ASSUME UNCHANGED gatewayVars PROVE GatewayInv'
    BY <1>10 DEF GatewayInv, gatewayVars, GatewayTyped, Forgotten, RuntimeInv, Attended, Working,
       UnderWay, AtCall
  <1> QED
    BY <1>2, <1>3, <1>4, <1>5, <1>6, <1>7, <1>8, <1>9, <1>10 DEF GatewayNext

LEMMA GatewayInvariant == GatewaySpec => []GatewayInv
  BY GatewayInitInv, GatewayStep, PTL DEF GatewaySpec

(* A server that was removed leaves no token, for any number of requests in    *)
(* any order, unless a login at it was under way or its removal failed.        *)
THEOREM RemovedServersHaveNoToken == GatewaySpec => []TokensHaveServers
  <1>1. GatewayInv => TokensHaveServers
    BY DEF GatewayInv, GatewayTyped, Forgotten, TokensHaveServers
  <1> QED
    BY <1>1, GatewayInvariant, PTL

(* The branch of a tool's call is closed when the call is over, and only the   *)
(* output of a tool that succeeded on its input reaches the parent: for any    *)
(* number of calls, wherever each of them fails.                               *)
THEOREM RuntimesHold == GatewaySpec => []RuntimeHolds
  <1>1. GatewayInv => RuntimeHolds
    BY DEF GatewayInv, RuntimeInv, RuntimeHolds, RuntimeCleansUp, OutputIsOfTheTool, Attended,
       Working, Sound
  <1> QED
    BY <1>1, GatewayInvariant, PTL

-----------------------------------------------------------------------------
(* The root of a realm, where no request looks a root up before some request *)
(* has ensured it (~ Cold).                                                  *)

RealmPcs ==
  {"new", "ensure", "check", "reset", "old", "adopt", "claim", "insert", "lookup", "relink",
   "missing", "read", "commit", "repair", "done", "failed"}
RealmRequests ==
  [pc : RealmPcs, branch : RootIds \union {NoBranch},
   next : {"done", "read", "commit", "repair"}, full : BOOLEAN]

RealmTyped ==
  /\ realmRow \in RootIds \union {NoBranch}
  /\ index \subseteq rows /\ rows \subseteq RootIds
  /\ key \in [RootIds -> Keys] /\ older \in [RootIds -> SUBSET Keys]
  /\ rcall \in [RealmCalls -> RealmRequests]

(* What a request has found out about the record: r is its entry of rcall,  *)
(* record and old the realm's record and whether there is older data.          *)
CallKnows(r, record, old) ==
  /\ r.pc \in {"check", "adopt", "insert", "claim", "reset", "relink", "read", "commit", "repair"} =>
       r.branch # NoBranch
  /\ ~old => /\ r.pc \in {"check", "reset", "lookup", "read", "commit", "repair", "missing"} =>
                  record # NoBranch
             /\ r.pc # "relink"
  /\ old => /\ r.branch \in {NoBranch, OldRoot}
            /\ r.pc # "insert"

(* A realm with older data keeps the one root of it. *)
OneOldRoot ==
  OldRoot \in rows => rows = {OldRoot} /\ index = {OldRoot} /\ realmRow \in {NoBranch, OldRoot}

(* A request that began when there was settled content comes to no reset. *)
FullIsSpared(r) ==
  r.full => /\ realmRow # NoBranch /\ NoKey \notin Readings(realmRow)
            /\ r.pc # "reset" /\ (r.pc = "check" => r.branch = realmRow)

RealmInv ==
  /\ RealmTyped /\ OneOldRoot
  /\ \A q \in RealmCalls : CallKnows(rcall[q], realmRow, OldRoot \in rows) /\ FullIsSpared(rcall[q])

LEMMA RealmInitInv == RealmInit => RealmInv
BY RealmAssumption
   DEF RealmInit, RealmInv, RealmTyped, OneOldRoot, CallKnows, FullIsSpared, CallIdle, RealmRequests,
       RealmPcs, Keys, RootIds

(* A request goes on without a write of a table. *)
LEMMA RealmCallMoves ==
  ASSUME RealmInv, NEW q \in RealmCalls, NEW r \in RealmRequests,
         rcall' = [rcall EXCEPT ![q] = r], UNCHANGED Tables,
         CallKnows(r, realmRow, OldRoot \in rows), FullIsSpared(r)
  PROVE  RealmInv'
<1>1. rcall' \in [RealmCalls -> RealmRequests]
  BY DEF RealmInv, RealmTyped
<1>2. UNCHANGED <<realmRow, rows, index, key, older>>
  BY DEF Tables
<1>3. RealmTyped' /\ OneOldRoot'
  BY <1>1, <1>2 DEF RealmInv, RealmTyped, OneOldRoot
<1>4. ASSUME NEW p \in RealmCalls
      PROVE  CallKnows(rcall'[p], realmRow, OldRoot \in rows) /\ FullIsSpared(rcall'[p])
  BY DEF RealmInv, RealmTyped
<1>5. \A p \in RealmCalls :
        CallKnows(rcall'[p], realmRow', OldRoot \in rows') /\ FullIsSpared(rcall[p])'
  BY <1>2, <1>4 DEF FullIsSpared, Readings
<1>. QED BY <1>3, <1>5 DEF RealmInv

LEMMA RealmCallTyped ==
  ASSUME RealmInv, NEW q \in RealmCalls
  PROVE  /\ rcall[q] \in RealmRequests
         /\ CallKnows(rcall[q], realmRow, OldRoot \in rows) /\ FullIsSpared(rcall[q])
         /\ \A pc \in RealmPcs : /\ [rcall[q] EXCEPT !.pc = pc] \in RealmRequests
                                 /\ [rcall EXCEPT ![q].pc = pc] = [rcall EXCEPT ![q] = [rcall[q] EXCEPT !.pc = pc]]
         /\ \A pc \in RealmPcs : \A b \in RootIds \union {NoBranch} :
              /\ [rcall[q] EXCEPT !.pc = pc, !.branch = b] \in RealmRequests
              /\ [rcall EXCEPT ![q].pc = pc, ![q].branch = b]
                   = [rcall EXCEPT ![q] = [rcall[q] EXCEPT !.pc = pc, !.branch = b]]
<1>1. rcall \in [RealmCalls -> RealmRequests]
  BY DEF RealmInv, RealmTyped
<1>2. \A pc \in RealmPcs : [rcall[q] EXCEPT !.pc = pc] \in RealmRequests
  BY <1>1 DEF RealmRequests
<1>3. \A pc \in RealmPcs : \A b \in RootIds \union {NoBranch} :
        [rcall[q] EXCEPT !.pc = pc, !.branch = b] \in RealmRequests
  BY <1>1 DEF RealmRequests
<1>. QED BY <1>1, <1>2, <1>3 DEF RealmInv

LEMMA RealmRecords ==
  ASSUME NEW r \in RealmRequests, NEW pc \in RealmPcs,
         NEW n \in {"done", "read", "commit", "repair"}, NEW h \in BOOLEAN
  PROVE  [r EXCEPT !.pc = pc, !.next = n, !.full = h] \in RealmRequests
BY DEF RealmRequests

LEMMA RealmUpdates ==
  ASSUME NEW calls, DOMAIN calls = RealmCalls, NEW q \in RealmCalls, calls[q] \in RealmRequests,
         NEW pc, NEW n, NEW h
  PROVE  [calls EXCEPT ![q].pc = pc, ![q].next = n, ![q].full = h]
           = [calls EXCEPT ![q] = [calls[q] EXCEPT !.pc = pc, !.next = n, !.full = h]]
OBVIOUS

(* Requests that only read *)
RealmReads(q) ==
  \/ StartCall(q) \/ QueryRow(q) \/ CheckRoot(q) \/ QueryOldRoot(q) \/ LookUp(q)
  \/ EnsureMissing(q) \/ ReadRealmRoot(q) \/ RealmCallFails(q)

LEMMA RealmReadKeeps ==
  ASSUME ~ Cold, RealmInv, NEW q \in RealmCalls, RealmReads(q)
  PROVE  RealmInv'
<1> DEFINE r == rcall[q]
<1>1. /\ r \in RealmRequests /\ FullIsSpared(r) /\ CallKnows(r, realmRow, OldRoot \in rows)
      /\ \A pc \in RealmPcs : /\ [r EXCEPT !.pc = pc] \in RealmRequests
                              /\ Goto(q, pc) <=> rcall' = [rcall EXCEPT ![q] = [r EXCEPT !.pc = pc]]
      /\ \A pc \in RealmPcs : \A b \in RootIds \union {NoBranch} :
           /\ [r EXCEPT !.pc = pc, !.branch = b] \in RealmRequests
           /\ Found(q, pc, b)
                <=> rcall' = [rcall EXCEPT ![q] = [r EXCEPT !.pc = pc, !.branch = b]]
  <2>1. r \in RealmRequests /\ FullIsSpared(r) /\ CallKnows(r, realmRow, OldRoot \in rows)
    BY RealmCallTyped
  <2>2. ASSUME NEW pc \in RealmPcs
        PROVE  /\ [r EXCEPT !.pc = pc] \in RealmRequests
               /\ Goto(q, pc) <=> rcall' = [rcall EXCEPT ![q] = [r EXCEPT !.pc = pc]]
    BY RealmCallTyped DEF Goto
  <2>3. ASSUME NEW pc \in RealmPcs, NEW b \in RootIds \union {NoBranch}
        PROVE  /\ [r EXCEPT !.pc = pc, !.branch = b] \in RealmRequests
               /\ Found(q, pc, b)
                    <=> rcall' = [rcall EXCEPT ![q] = [r EXCEPT !.pc = pc, !.branch = b]]
    <3>1. /\ [r EXCEPT !.pc = pc, !.branch = b] \in RealmRequests
          /\ [rcall EXCEPT ![q].pc = pc, ![q].branch = b]
               = [rcall EXCEPT ![q] = [r EXCEPT !.pc = pc, !.branch = b]]
      BY RealmCallTyped
    <3>. QED BY <3>1, Zenon DEF Found
  <2>. QED BY <2>1, <2>2, <2>3
<1>2. /\ realmRow \in RootIds \union {NoBranch} /\ index \subseteq rows /\ rows \subseteq RootIds
      /\ OneOldRoot
  BY DEF RealmInv, RealmTyped
<1>3. CASE StartCall(q)
  <2> DEFINE s == [r EXCEPT !.pc = IF q \in Unensured THEN "lookup" ELSE "ensure",
                            !.next = IF q \in Unensured THEN "read" ELSE "done",
                            !.full = HasSettled]
  <2>1. rcall' = [rcall EXCEPT ![q] = s] /\ UNCHANGED Tables
    <3>1. PICK pc, n, h : /\ pc = (IF q \in Unensured THEN "lookup" ELSE "ensure")
                          /\ n = (IF q \in Unensured THEN "read" ELSE "done")
                          /\ h = HasSettled
      OBVIOUS
    <3>2. rcall' = [rcall EXCEPT ![q].pc = pc, ![q].next = n, ![q].full = h] /\ UNCHANGED Tables
      BY <1>3, <3>1 DEF StartCall
    <3>3. DOMAIN rcall = RealmCalls
      BY DEF RealmInv, RealmTyped
    <3>4. rcall' = [rcall EXCEPT ![q] = [r EXCEPT !.pc = pc, !.next = n, !.full = h]]
      BY <1>1, <3>2, <3>3, RealmUpdates
    <3>5. s = [r EXCEPT !.pc = pc, !.next = n, !.full = h]
      BY <3>1
    <3>. QED BY <3>2, <3>4, <3>5
  <2>2. s \in RealmRequests
    <3>1. HasSettled \in BOOLEAN
      BY DEF HasSettled, HasContent
    <3> DEFINE pc == IF q \in Unensured THEN "lookup" ELSE "ensure"
               n == IF q \in Unensured THEN "read" ELSE "done"
    <3>2. pc \in RealmPcs /\ n \in {"done", "read", "commit", "repair"}
      BY DEF RealmPcs
    <3> HIDE DEF r, pc, n
    <3>3. [r EXCEPT !.pc = pc, !.next = n, !.full = HasSettled] \in RealmRequests
      BY <1>1, <3>1, <3>2, RealmRecords
    <3>. QED BY <3>3 DEF pc, n
  <2>3. CallKnows(s, realmRow, OldRoot \in rows)
    BY <1>3, <1>1, <1>2 DEF CallKnows, StartCall, RealmRequests, RealmAt
  <2>4. FullIsSpared(s)
    BY <1>1, RealmAssumption DEF FullIsSpared, HasSettled, HasContent, RealmRequests
  <2>. HIDE DEF s
  <2>. QED BY <2>1, <2>2, <2>3, <2>4, RealmCallMoves
<1>4. CASE QueryRow(q)
  <2>1. PICK record \in {realmRow, NoBranch} :
          IF record # NoBranch THEN Found(q, "check", record) ELSE Goto(q, "old")
    BY <1>4 DEF QueryRow
  <2>2. r.pc = "ensure" /\ UNCHANGED Tables
    BY <1>4 DEF QueryRow, RealmAt
  <2>3. CASE record # NoBranch
    <3> DEFINE s == [r EXCEPT !.pc = "check", !.branch = record]
    <3>1. rcall' = [rcall EXCEPT ![q] = s] /\ s \in RealmRequests
      <4>1. "check" \in RealmPcs /\ record \in RootIds \union {NoBranch} /\ Found(q, "check", record)
        BY <1>2, <2>1, <2>3 DEF RealmPcs
      <4>. QED BY <1>1, <4>1
    <3>2. s.pc = "check" /\ s.branch = record /\ s.full = r.full
      BY <1>1 DEF RealmRequests
    <3>3. CallKnows(s, realmRow, OldRoot \in rows) /\ FullIsSpared(s)
      BY <1>1, <1>2, <2>1, <2>3, <3>2 DEF CallKnows, FullIsSpared, OneOldRoot
    <3>. QED BY <2>2, <3>1, <3>3, RealmCallMoves
  <2>4. CASE record = NoBranch
    <3> DEFINE s == [r EXCEPT !.pc = "old"]
    <3>1. rcall' = [rcall EXCEPT ![q] = s] /\ s \in RealmRequests
      BY <1>1, <2>1, <2>4 DEF RealmPcs
    <3>2. s.pc = "old" /\ s.branch = r.branch /\ s.full = r.full
      BY <1>1 DEF RealmRequests
    <3>3. CallKnows(s, realmRow, OldRoot \in rows) /\ FullIsSpared(s)
      BY <1>1, <3>2 DEF CallKnows, FullIsSpared
    <3>. QED BY <2>2, <3>1, <3>3, RealmCallMoves
  <2>. QED BY <2>3, <2>4
<1>5. CASE CheckRoot(q)
  <2>0. PICK k \in Readings(r.branch) : Goto(q, IF k # NoKey THEN "lookup" ELSE "reset")
    BY <1>5 DEF CheckRoot
  <2> DEFINE pc == IF k # NoKey THEN "lookup" ELSE "reset"
             s == [r EXCEPT !.pc = pc]
  <2>1. r.pc = "check" /\ UNCHANGED Tables /\ rcall' = [rcall EXCEPT ![q] = s] /\ s \in RealmRequests
    BY <1>1, <1>5, <2>0 DEF CheckRoot, RealmAt, RealmPcs
  <2>2. s.pc = pc /\ s.branch = r.branch /\ s.full = r.full
    BY <1>1 DEF RealmRequests
  <2>3. CallKnows(s, realmRow, OldRoot \in rows) /\ FullIsSpared(s)
    <3>1. r.full => k # NoKey
      BY <1>1, <2>0, <2>1 DEF FullIsSpared
    <3>2. r.branch # NoBranch /\ (OldRoot \notin rows => realmRow # NoBranch)
          /\ (OldRoot \in rows => r.branch \in {NoBranch, OldRoot})
      BY <1>1, <2>1 DEF CallKnows
    <3>3. pc \in {"lookup", "reset"}
      OBVIOUS
    <3>4. CallKnows(s, realmRow, OldRoot \in rows)
      BY <2>2, <3>2, <3>3 DEF CallKnows
    <3>5. FullIsSpared(s)
      <4>1. r.full => realmRow # NoBranch /\ NoKey \notin Readings(realmRow) /\ pc = "lookup"
        BY <1>1, <3>1 DEF FullIsSpared
      <4> HIDE DEF s, r, pc
      <4>. QED BY <2>2, <4>1 DEF FullIsSpared
    <3>. QED BY <3>4, <3>5
  <2>. QED BY <2>1, <2>3, RealmCallMoves
<1>6. CASE QueryOldRoot(q)
  <2>1. r.pc = "old" /\ UNCHANGED Tables
    BY <1>6 DEF QueryOldRoot, RealmAt
  <2>2. ASSUME NEW b \in index, NEW k, Found(q, IF k # NoKey THEN "adopt" ELSE "claim", b) PROVE RealmInv'
    <3> DEFINE pc == IF k # NoKey THEN "adopt" ELSE "claim"
               s == [r EXCEPT !.pc = pc, !.branch = b]
    <3>1. rcall' = [rcall EXCEPT ![q] = s] /\ s \in RealmRequests /\ b \in RootIds
      BY <1>1, <1>2, <2>2 DEF RealmPcs
    <3>2. s.pc = pc /\ s.branch = b /\ s.full = r.full
      BY <1>1 DEF RealmRequests
    <3>3. CallKnows(s, realmRow, OldRoot \in rows) /\ FullIsSpared(s)
      <4>1. b # NoBranch /\ (OldRoot \in rows => b = OldRoot) /\ pc \in {"adopt", "claim"}
        BY <1>2, <3>1, RealmAssumption DEF OneOldRoot
      <4>2. CallKnows(s, realmRow, OldRoot \in rows)
        BY <3>2, <4>1 DEF CallKnows
      <4>3. FullIsSpared(s)
        <5>1. r.full => realmRow # NoBranch /\ NoKey \notin Readings(realmRow)
          BY <1>1 DEF FullIsSpared
        <5> HIDE DEF s, r, pc
        <5>. QED BY <3>2, <4>1, <5>1 DEF FullIsSpared
      <4>. QED BY <4>2, <4>3
    <3>. QED BY <2>1, <3>1, <3>3, RealmCallMoves
  <2>3. CASE index = {} /\ Found(q, "insert", q)
    <3> DEFINE s == [r EXCEPT !.pc = "insert", !.branch = q]
    <3>1. rcall' = [rcall EXCEPT ![q] = s] /\ s \in RealmRequests
      BY <1>1, <2>3 DEF RealmPcs, RootIds
    <3>2. s.pc = "insert" /\ s.branch = q /\ s.full = r.full
      BY <1>1 DEF RealmRequests
    <3>3. CallKnows(s, realmRow, OldRoot \in rows) /\ FullIsSpared(s)
      BY <1>1, <1>2, <2>3, <3>2, RealmAssumption DEF CallKnows, FullIsSpared, OneOldRoot, RootIds
    <3>. QED BY <2>1, <3>1, <3>3, RealmCallMoves
  <2>. QED BY <1>6, <2>2, <2>3 DEF QueryOldRoot
<1>7. CASE LookUp(q)
  <2> DEFINE next == IF r.next = "commit" THEN "commit" ELSE IF r.next = "repair" THEN "repair" ELSE "read"
             gone == IF r.next = "read" THEN "missing" ELSE "failed"
  <2>1. r.pc = "lookup" /\ UNCHANGED Tables
    BY <1>7 DEF LookUp, RealmAt
  <2>2. CASE realmRow # NoBranch /\ Found(q, next, realmRow)
    <3> DEFINE s == [r EXCEPT !.pc = next, !.branch = realmRow]
    <3>1. rcall' = [rcall EXCEPT ![q] = s] /\ s \in RealmRequests
      BY <1>1, <1>2, <2>2 DEF RealmPcs
    <3>2. s.pc = next /\ s.branch = realmRow /\ s.full = r.full
      BY <1>1 DEF RealmRequests
    <3>3. CallKnows(s, realmRow, OldRoot \in rows) /\ FullIsSpared(s)
      <4>1. next \in {"commit", "repair", "read"} /\ (OldRoot \in rows => realmRow = OldRoot)
        BY <1>2, <2>2 DEF OneOldRoot
      <4>2. CallKnows(s, realmRow, OldRoot \in rows)
        BY <2>2, <3>2, <4>1 DEF CallKnows
      <4>3. FullIsSpared(s)
        <5>1. r.full => realmRow # NoBranch /\ NoKey \notin Readings(realmRow)
          BY <1>1 DEF FullIsSpared
        <5> HIDE DEF s, r, next
        <5>. QED BY <3>2, <4>1, <5>1 DEF FullIsSpared
      <4>. QED BY <4>2, <4>3
    <3>. QED BY <2>1, <3>1, <3>3, RealmCallMoves
  <2>3. ASSUME NEW b \in index, realmRow = NoBranch, Found(q, "relink", b) PROVE RealmInv'
    <3> DEFINE s == [r EXCEPT !.pc = "relink", !.branch = b]
    <3>1. rcall' = [rcall EXCEPT ![q] = s] /\ s \in RealmRequests /\ b \in RootIds
      BY <1>1, <1>2, <2>3 DEF RealmPcs
    <3>2. s.pc = "relink" /\ s.branch = b /\ s.full = r.full
      BY <1>1 DEF RealmRequests
    <3>3. CallKnows(s, realmRow, OldRoot \in rows) /\ FullIsSpared(s)
      BY <1>1, <1>2, <2>1, <2>3, <3>1, <3>2, RealmAssumption DEF CallKnows, FullIsSpared, OneOldRoot
    <3>. QED BY <2>1, <3>1, <3>3, RealmCallMoves
  <2>4. CASE realmRow = NoBranch /\ index = {} /\ Goto(q, gone)
    <3> DEFINE s == [r EXCEPT !.pc = gone]
    <3>1. rcall' = [rcall EXCEPT ![q] = s] /\ s \in RealmRequests
      BY <1>1, <2>4 DEF RealmPcs
    <3>2. s.pc = gone /\ s.branch = r.branch /\ s.full = r.full
      BY <1>1 DEF RealmRequests
    <3>3. CallKnows(s, realmRow, OldRoot \in rows) /\ FullIsSpared(s)
      BY <1>1, <1>2, <2>1, <2>4, <3>2 DEF CallKnows, FullIsSpared, OneOldRoot
    <3>. QED BY <2>1, <3>1, <3>3, RealmCallMoves
  <2>. QED BY <1>7, <2>2, <2>3, <2>4 DEF LookUp
<1>8. CASE EnsureMissing(q)
  <2> DEFINE s == [r EXCEPT !.pc = "ensure", !.next = "done", !.full = HasSettled]
  <2>1. rcall' = [rcall EXCEPT ![q] = s] /\ UNCHANGED Tables
    BY <1>8, <1>1 DEF EnsureMissing
  <2>2. s \in RealmRequests
    <3>1. HasSettled \in BOOLEAN
      BY DEF HasSettled, HasContent
    <3>2. "ensure" \in RealmPcs
      BY DEF RealmPcs
    <3> HIDE DEF r
    <3>. QED BY <1>1, <3>1, <3>2, RealmRecords
  <2>3. CallKnows(s, realmRow, OldRoot \in rows)
    BY <1>1 DEF CallKnows, RealmRequests
  <2>4. FullIsSpared(s)
    BY <1>1, RealmAssumption DEF FullIsSpared, HasSettled, HasContent, RealmRequests
  <2>. HIDE DEF s
  <2>. QED BY <2>1, <2>2, <2>3, <2>4, RealmCallMoves
<1>9. CASE ReadRealmRoot(q)
  <2>1. PICK pc \in {"missing", "failed", "lookup"}, n \in {"done", "read", "commit", "repair"} :
          rcall' = [rcall EXCEPT ![q] = [r EXCEPT !.pc = pc, !.next = n]]
    <3>0. PICK k \in Readings(r.branch) : rcall' =
            [rcall EXCEPT
               ![q].pc = CASE k = NoKey -> IF r.next = "read" THEN "missing" ELSE "failed"
                           [] k = LostContent /\ q \notin Unensured -> "failed"
                           [] OTHER -> "lookup",
               ![q].next = CASE k = NoKey -> @ [] k = LostContent -> "repair" [] OTHER -> "commit"]
      BY <1>9 DEF ReadRealmRoot
    <3> DEFINE lost == k = LostContent
               pc == CASE k = NoKey -> IF r.next = "read" THEN "missing" ELSE "failed"
                       [] lost /\ q \notin Unensured -> "failed"
                       [] OTHER -> "lookup"
               n == CASE k = NoKey -> r.next [] lost -> "repair" [] OTHER -> "commit"
    <3>1. rcall' = [rcall EXCEPT ![q].pc = pc, ![q].next = n]
      BY <3>0
    <3>2. pc \in {"missing", "failed", "lookup"}
      OBVIOUS
    <3>3. r.next \in {"done", "read", "commit", "repair"}
      BY <1>1 DEF RealmRequests
    <3>4. n \in {"done", "read", "commit", "repair"}
      BY <3>3
    <3> HIDE DEF pc, n
    <3>. QED BY <3>1, <3>2, <3>4
  <2> DEFINE s == [r EXCEPT !.pc = pc, !.next = n]
  <2>2. s \in RealmRequests /\ s.pc = pc /\ s.branch = r.branch /\ s.full = r.full
    <3>1. pc \in RealmPcs
      BY <2>1 DEF RealmPcs
    <3>. QED BY <1>1, <2>1, <3>1 DEF RealmRequests
  <2>3. r.pc = "read" /\ UNCHANGED Tables
    BY <1>9 DEF ReadRealmRoot, RealmAt
  <2>4. CallKnows(s, realmRow, OldRoot \in rows) /\ FullIsSpared(s)
    BY <1>1, <2>1, <2>2, <2>3 DEF CallKnows, FullIsSpared
  <2>. QED BY <2>1, <2>2, <2>3, <2>4, RealmCallMoves
<1>10. CASE RealmCallFails(q)
  <2> DEFINE s == [r EXCEPT !.pc = "failed"]
  <2>1. UNCHANGED Tables /\ rcall' = [rcall EXCEPT ![q] = s] /\ s \in RealmRequests
    BY <1>1, <1>10 DEF RealmCallFails, RealmPcs
  <2>2. s.pc = "failed" /\ s.branch = r.branch /\ s.full = r.full
    BY <1>1 DEF RealmRequests
  <2>3. CallKnows(s, realmRow, OldRoot \in rows) /\ FullIsSpared(s)
    BY <1>1, <2>1, <2>2 DEF CallKnows, FullIsSpared
  <2>. QED BY <2>1, <2>3, RealmCallMoves
<1>. QED BY <1>3, <1>4, <1>5, <1>6, <1>7, <1>8, <1>9, <1>10 DEF RealmReads

(* A request goes on and writes a table: the record of the realm does not move, *)
(* and no read misses a key that none missed before.                            *)
RecordStays ==
  /\ realmRow # NoBranch => realmRow' = realmRow
  /\ \A b \in RootIds : NoKey \notin Readings(b) => NoKey \notin Readings(b)'

LEMMA RealmWriteMoves ==
  ASSUME RealmInv, NEW q \in RealmCalls, NEW s \in RealmRequests,
         rcall' = [rcall EXCEPT ![q] = s], RecordStays,
         realmRow' \in RootIds \union {NoBranch}, index' \subseteq rows', rows' \subseteq RootIds,
         key' \in [RootIds -> Keys], older' \in [RootIds -> SUBSET Keys], OldRoot \in rows' <=> OldRoot \in rows, OneOldRoot',
         CallKnows(s, realmRow', OldRoot \in rows),
         s.full => FullIsSpared(rcall[q]) /\ rcall[q].full /\ s.pc \notin {"check", "reset"}
  PROVE  RealmInv'
<1>1. rcall' \in [RealmCalls -> RealmRequests]
  BY DEF RealmInv, RealmTyped
<1>2. RealmTyped'
  BY <1>1 DEF RealmTyped
<1>3. ASSUME NEW p \in RealmCalls, p # q
      PROVE  CallKnows(rcall'[p], realmRow', OldRoot \in rows') /\ FullIsSpared(rcall[p])'
  <2>1. rcall'[p] = rcall[p]
    BY <1>3 DEF RealmInv, RealmTyped
  <2>2. CallKnows(rcall[p], realmRow, OldRoot \in rows) /\ FullIsSpared(rcall[p])
    BY DEF RealmInv
  <2>3. realmRow # NoBranch => realmRow \in RootIds /\ realmRow' = realmRow
    BY DEF RealmInv, RealmTyped, RecordStays
  <2>4. CallKnows(rcall[p], realmRow', OldRoot \in rows')
    BY <2>2, <2>3 DEF CallKnows
  <2>5. FullIsSpared(rcall[p])'
    BY <2>1, <2>2, <2>3 DEF FullIsSpared, RecordStays
  <2>. QED BY <2>1, <2>4, <2>5
<1>4. CallKnows(rcall'[q], realmRow', OldRoot \in rows') /\ FullIsSpared(rcall[q])'
  <2>1. rcall'[q] = s
    BY DEF RealmInv, RealmTyped
  <2>2. realmRow # NoBranch => realmRow \in RootIds /\ realmRow' = realmRow
    BY DEF RealmInv, RealmTyped, RecordStays
  <2>3. CallKnows(s, realmRow', OldRoot \in rows')
    BY DEF CallKnows
  <2>4. FullIsSpared(rcall[q])'
    BY <2>1, <2>2 DEF FullIsSpared, RecordStays
  <2>. QED BY <2>1, <2>3, <2>4
<1>. QED BY <1>2, <1>3, <1>4 DEF RealmInv

RealmWrites(q) ==
  InsertRoot(q) \/ Claim(q) \/ ResetRoot(q) \/ Relink(q) \/ CommitRoot(q) \/ RepairRoot(q)

LEMMA RealmWriteGoes ==
  ASSUME RealmInv, NEW q \in RealmCalls, NEW pc \in {"claim", "lookup", "reset", "done"}, Goto(q, pc),
         RecordStays, realmRow' \in RootIds \union {NoBranch}, index' \subseteq rows',
         rows' \subseteq RootIds, key' \in [RootIds -> Keys], older' \in [RootIds -> SUBSET Keys],
         OldRoot \in rows' <=> OldRoot \in rows, OneOldRoot',
         pc = "claim" => OldRoot \notin rows /\ rcall[q].branch # NoBranch,
         pc = "reset" => ~ rcall[q].full /\ rcall[q].branch # NoBranch,
         pc \in {"lookup", "reset"} /\ OldRoot \notin rows => realmRow' # NoBranch
  PROVE  RealmInv' /\ RecordStays
<1> DEFINE r == rcall[q]
           s == [r EXCEPT !.pc = pc]
<1>1. /\ r \in RealmRequests /\ FullIsSpared(r) /\ CallKnows(r, realmRow, OldRoot \in rows)
      /\ pc \in RealmPcs /\ s \in RealmRequests /\ rcall' = [rcall EXCEPT ![q] = s]
  BY RealmCallTyped DEF Goto, RealmPcs
<1>2. s.pc = pc /\ s.branch = r.branch /\ s.full = r.full
  BY <1>1 DEF RealmRequests
<1>3. CallKnows(s, realmRow', OldRoot \in rows)
  BY <1>1, <1>2 DEF CallKnows
<1>4. s.full => FullIsSpared(rcall[q]) /\ rcall[q].full /\ s.pc \notin {"check", "reset"}
  BY <1>1, <1>2
<1> HIDE DEF s
<1>. QED BY <1>1, <1>3, <1>4, RealmWriteMoves

LEMMA RealmWriteKeeps ==
  ASSUME RealmInv, NEW q \in RealmCalls, RealmWrites(q)
  PROVE  RealmInv' /\ RecordStays
<1> DEFINE r == rcall[q]
<1>1. r \in RealmRequests /\ FullIsSpared(r) /\ CallKnows(r, realmRow, OldRoot \in rows)
  BY RealmCallTyped
<1>2. /\ realmRow \in RootIds \union {NoBranch} /\ index \subseteq rows /\ rows \subseteq RootIds
      /\ OneOldRoot /\ key \in [RootIds -> Keys] /\ older \in [RootIds -> SUBSET Keys] /\ r.branch \in RootIds \union {NoBranch}
  BY <1>1 DEF RealmInv, RealmTyped, RealmRequests
<1>3. CASE InsertRoot(q)
  <2>1. r.pc = "insert" /\ rows' = rows \union {q} /\ Goto(q, "claim") /\ UNCHANGED <<realmRow, index, key, older>>
    BY <1>3 DEF InsertRoot, RealmAt
  <2>2. r.branch # NoBranch /\ OldRoot \notin rows
    BY <1>1, <2>1 DEF CallKnows
  <2>3. RecordStays /\ rows' \subseteq RootIds /\ index' \subseteq rows' /\ (OldRoot \in rows' <=> OldRoot \in rows)
    BY <1>2, <2>1, RealmAssumption DEF RecordStays, RootIds, Readings
  <2>4. OneOldRoot'
    BY <2>2, <2>3 DEF OneOldRoot
  <2>. QED BY <1>2, <2>1, <2>2, <2>3, <2>4, RealmWriteGoes
<1>4. CASE Claim(q)
  <2>1. r.pc \in {"claim", "adopt"} /\ UNCHANGED <<rows, index, key, older>>
    BY <1>4 DEF Claim, RealmAt
  <2>2. r.branch # NoBranch /\ (OldRoot \in rows => r.branch = OldRoot)
    BY <1>1, <2>1 DEF CallKnows
  <2>3. CASE realmRow = NoBranch
    <3>1. PICK pc \in {"lookup", "reset"} : Goto(q, pc)
      BY <1>4, <2>3 DEF Claim
    <3>2. realmRow' = r.branch
      BY <1>4, <2>3 DEF Claim
    <3>3. RecordStays /\ OneOldRoot'
      BY <1>2, <2>1, <2>2, <2>3, <3>2 DEF RecordStays, OneOldRoot, Readings
    <3>4. ~ r.full
      BY <1>1, <2>3 DEF FullIsSpared
    <3>. QED BY <1>2, <2>1, <2>2, <3>1, <3>2, <3>3, <3>4, RealmWriteGoes
  <2>4. CASE realmRow # NoBranch
    <3>1. Goto(q, "lookup") /\ UNCHANGED realmRow
      BY <1>4, <2>4 DEF Claim
    <3>2. RecordStays /\ OneOldRoot'
      BY <1>2, <2>1, <3>1 DEF RecordStays, OneOldRoot, Readings
    <3>. QED BY <1>2, <2>1, <2>4, <3>1, <3>2, RealmWriteGoes
  <2>. QED BY <2>3, <2>4
<1>5. CASE Relink(q)
  <2>1. r.pc = "relink" /\ realmRow' = r.branch /\ Goto(q, "lookup") /\ UNCHANGED <<rows, index, key, older>>
    BY <1>5 DEF Relink, RealmAt
  <2>2. OldRoot \in rows /\ r.branch = OldRoot
    BY <1>1, <2>1 DEF CallKnows
  <2>3. RecordStays /\ OneOldRoot'
    BY <1>2, <2>1, <2>2 DEF RecordStays, OneOldRoot, Readings
  <2>. QED BY <1>2, <2>1, <2>2, <2>3, RealmWriteGoes
<1>6. ASSUME NEW pc \in {"lookup", "done"}, NEW k \in Keys \ {NoKey},
             r.pc = "reset" => pc = "lookup", r.pc \in {"commit", "repair"} => pc = "done",
             r.pc \in {"reset", "commit", "repair"}, Goto(q, pc),
             SetKey(r.branch, k), UNCHANGED <<realmRow, rows, index>>
      PROVE  RealmInv' /\ RecordStays
  <2>1. /\ r.branch # NoBranch
        /\ r.pc = "reset" => (OldRoot \notin rows => realmRow # NoBranch)
    BY <1>1, <1>6 DEF CallKnows
  <2>2. /\ key' = [key EXCEPT ![r.branch] = k] /\ older' = [older EXCEPT ![r.branch] = Readings(r.branch)]
        /\ r.branch \in RootIds /\ Readings(r.branch) \in SUBSET Keys
    BY <1>2, <1>6, <2>1 DEF SetKey, Readings
  <2>3. OneOldRoot' /\ key' \in [RootIds -> Keys] /\ older' \in [RootIds -> SUBSET Keys]
    BY <1>2, <1>6, <2>2 DEF OneOldRoot
  <2>4. ASSUME NEW b \in RootIds, NoKey \notin Readings(b) PROVE NoKey \notin Readings(b)'
    BY <1>2, <1>6, <2>2, <2>4 DEF Readings
  <2>5. RecordStays
    BY <1>6, <2>4 DEF RecordStays
  <2>. QED BY <1>2, <1>6, <2>1, <2>3, <2>5, RealmWriteGoes
<1>7. CASE ResetRoot(q) \/ CommitRoot(q) \/ RepairRoot(q)
  <2>1. EmptyKey \in Keys \ {NoKey} /\ Content \in Keys \ {NoKey}
    BY RealmAssumption DEF Keys
  <2>. QED BY <1>6, <1>7, <2>1 DEF ResetRoot, CommitRoot, RepairRoot, RealmAt
<1>. QED BY <1>3, <1>4, <1>5, <1>7 DEF RealmWrites

LEMMA RealmNextKeeps ==
  ASSUME ~ Cold, RealmInv, [RealmNext]_realmVars
  PROVE  RealmInv' /\ RecordStays
<1>1. ASSUME NEW q \in RealmCalls, RealmReads(q) PROVE RealmInv' /\ RecordStays
  <2>1. UNCHANGED Tables
    BY <1>1 DEF RealmReads, StartCall, QueryRow, CheckRoot, QueryOldRoot, LookUp, EnsureMissing,
                ReadRealmRoot, RealmCallFails
  <2>. QED BY <1>1, <2>1, RealmReadKeeps DEF Tables, RecordStays, Readings
<1>2. ASSUME NEW b \in RootIds, IndexRow(b) PROVE RealmInv' /\ RecordStays
  <2>1. UNCHANGED <<realmRow, rows, key, older, rcall>> /\ index' = index \union {b} /\ b \in rows
    BY <1>2 DEF IndexRow
  <2>2. OldRoot \notin rows
    BY <1>2 DEF IndexRow, RealmInv, OneOldRoot
  <2>. QED BY <2>1, <2>2 DEF RealmInv, RealmTyped, OneOldRoot, FullIsSpared, RecordStays, Readings
<1>4. ASSUME NEW b \in RootIds, KeySettles(b) PROVE RealmInv' /\ RecordStays
  <2>1. UNCHANGED <<realmRow, rows, index, key, rcall>> /\ older' = [older EXCEPT ![b] = {}]
    BY <1>4 DEF KeySettles
  <2>2. \A c \in RootIds : Readings(c)' \subseteq Readings(c)
    BY <2>1 DEF RealmInv, RealmTyped, Readings
  <2>3. RecordStays
    BY <2>1, <2>2 DEF RecordStays
  <2>4. ASSUME NEW p \in RealmCalls PROVE FullIsSpared(rcall[p])'
    <3>1. FullIsSpared(rcall[p]) /\ realmRow \in RootIds \union {NoBranch}
      BY DEF RealmInv, RealmTyped
    <3>. QED BY <2>1, <2>2, <3>1 DEF FullIsSpared
  <2>5. RealmTyped' /\ OneOldRoot'
    BY <2>1 DEF RealmInv, RealmTyped, OneOldRoot
  <2>. QED BY <2>1, <2>3, <2>4, <2>5 DEF RealmInv
<1>3. ASSUME UNCHANGED realmVars PROVE RealmInv' /\ RecordStays
  BY <1>3 DEF realmVars, RealmInv, RealmTyped, OneOldRoot, FullIsSpared, RecordStays, Readings
<1>. QED BY <1>1, <1>2, <1>3, <1>4, RealmWriteKeeps DEF RealmNext, RealmStep, RealmReads, RealmWrites

(* Where no request looks for the root of a realm that nobody has ensured,      *)
(* ensuring a realm costs it neither its record nor the content that was        *)
(* settled when the ensuring began, whatever requests race, whatever their      *)
(* queries and reads miss and wherever they fail.                               *)
THEOREM RealmsAreKept ==
  ASSUME ~ Cold PROVE RealmSpec => EnsureKeepsRealm
<1>1. RealmInv /\ [RealmNext]_realmVars => RealmInv'
  BY RealmNextKeeps
<1>2. RealmInv /\ [RealmNext]_realmVars =>
        [realmRow # NoBranch => realmRow' = realmRow]_realmRow
  BY RealmNextKeeps DEF RecordStays
<1>3. RealmInv /\ [RealmNext]_realmVars =>
        [\A q \in RealmCalls : (ResetRoot(q) /\ rcall[q].full) => ~HasContent]_realmVars
  BY DEF RealmInv, FullIsSpared, ResetRoot, RealmAt
<1>. QED BY RealmInitInv, <1>1, <1>2, <1>3, PTL
        DEF RealmSpec, EnsureKeepsRealm, RecordNeverMoves, EnsureSparesContent

-----------------------------------------------------------------------------
(* The drive's page. *)

OpKinds == {"none", "create", "delete", "moveCopy", "files", "folder", "drop", "dirs", "over"}
IsOp(o) ==
  o = [kind |-> o.kind, steps |-> o.steps, files |-> o.files, sent |-> o.sent, back |-> o.back,
       landed |-> o.landed]
Width(o) == IF o.kind = "folder" THEN 2 ELSE 1

(* A step is on its way, or answered, with no other call. *)
StepAlone(o) ==
  /\ \A c \in o.sent : c.do # "put" => o.sent = {c} /\ o.back = {}
  /\ \A b \in o.back : b.call.do # "put" => o.sent = {} /\ o.back = {b}

(* An operation of one call has it on its way or answered. *)
OneCall(o) ==
  /\ o.steps = {} /\ o.files = {} /\ o.landed = {}
  /\ \/ o.back = {} /\ \E c : o.sent = {c}
     \/ o.sent = {} /\ \E b : o.back = {b}

OpFits(o) ==
  /\ IsOp(o) /\ o.kind \in OpKinds /\ IsFiniteSet(o.files)
  /\ IsFiniteSet(Flying(o)) /\ Cardinality(Flying(o)) <= Width(o)
  /\ StepAlone(o)

OpOk(o) ==
  /\ OpFits(o)
  /\ o.kind \in {"none", "drop", "over"} => o.sent = {} /\ o.back = {}
  /\ o.kind \in {"none", "drop"} => o.landed = {}
  /\ o.kind \in {"create", "delete", "moveCopy"} => OneCall(o)
  /\ o.kind = "files" => o.steps = {} /\ \A c \in Flying(o) : c.do = "put"

(* What an operation has changed is known to the page, or lies answered. *)
HasChanged(o) == o.landed # {} \/ \E b \in o.back : b.ok
Calm == ~unsure /\ \A q \in Ops : Under(q) => ~HasChanged(op[q])

(* The list, shown or read for the directory of now, is what the realm has. *)
Fresh ==
  /\ ~view.loading /\ ~view.error => view.names = Children(cwd)
  /\ \A i \in DOMAIN loads :
       loads[i].live /\ loads[i].answer = "list" => loads[i].names = Children(cwd)

IsLoad(l) ==
  \E path, names, answer, live :
    /\ l = [path |-> path, answer |-> answer, names |-> names, live |-> live]
    /\ answer \in {"none", "list", "error"} /\ live \in BOOLEAN
LoadsOk ==
  /\ \E S : loads \in Seq(S)
  /\ \A i \in DOMAIN loads :
       IsLoad(loads[i]) /\ (loads[i].live => loads[i].path = cwd)
IsView(v) ==
  \E names, loading, error :
    /\ v = [names |-> names, loading |-> loading, error |-> error]
    /\ loading \in BOOLEAN /\ error \in BOOLEAN

ExplorerInv ==
  /\ op = [q \in Ops |-> op[q]] /\ \A q \in Ops : OpOk(op[q])
  /\ LoadsOk
  /\ IsView(view)
  /\ Calm => Fresh

(* How many files an operation sends can be sent: there is such a set. *)
LEMMA FilesToSend ==
  ASSUME NEW calls, IsFiniteSet(calls), NEW n \in Nat, n <= 2
  PROVE  \E S \in SUBSET calls : Cardinality(S) = Min({Cardinality(calls), n})
<1>1. Cardinality(calls) \in Nat
  BY FS_CardinalityType
<1>2. PICK k : k = Min({Cardinality(calls), n})
  OBVIOUS
<1>3. k \in {Cardinality(calls), n} /\ k <= Cardinality(calls) /\ k <= n
  <2>1. \E x \in {Cardinality(calls), n} : \A y \in {Cardinality(calls), n} : x <= y
    BY <1>1
  <2>2. Min({Cardinality(calls), n}) \in {Cardinality(calls), n}
        /\ \A y \in {Cardinality(calls), n} : Min({Cardinality(calls), n}) <= y
    BY <2>1 DEF Min
  <2>. QED BY <1>2, <2>2
<1>4. CASE k = 0
  BY <1>2, <1>4, FS_EmptySet
<1>5. CASE k # 0
  <2>1. PICK a : a \in calls
    BY <1>1, <1>3, <1>5, FS_EmptySet
  <2>2. Cardinality({a}) = 1 /\ IsFiniteSet({a})
    BY FS_Singleton
  <2>3. CASE k = 1
    BY <1>2, <2>1, <2>2, <2>3
  <2>4. CASE k # 1
    <3>1. k = 2 /\ Cardinality(calls) >= 2
      BY <1>1, <1>3, <1>5, <2>4
    <3>2. calls # {a}
      BY <2>2, <3>1
    <3>3. PICK b \in calls : b # a
      BY <2>1, <3>2
    <3>4. Cardinality({a} \union {b}) = 2
      BY <2>2, <3>3, FS_AddElement
    <3>. QED BY <1>2, <2>1, <3>1, <3>3, <3>4
  <2>. QED BY <2>3, <2>4
<1>. QED BY <1>4, <1>5

LEMMA FilesSent ==
  ASSUME NEW o, OpFits(o)
  PROVE  /\ NextFiles(o) \subseteq {Call("put", f, <<>>) : f \in o.files}
         /\ IsFiniteSet(NextFiles(o))
         /\ Cardinality(Flying(o) \union NextFiles(o)) <= Width(o)
<1>. DEFINE calls == {Call("put", f, <<>>) : f \in o.files}
            n == Width(o) - Cardinality(Flying(o))
<1>1. IsFiniteSet(calls)
  <2>1. IsFiniteSet(o.files)
    BY DEF OpFits
  <2>2. [f \in o.files |-> Call("put", f, <<>>)] \in Surjection(o.files, calls)
    BY DEF Surjection
  <2>. QED BY <2>1, <2>2, FS_Surjection
<1>2. Cardinality(Flying(o)) \in Nat /\ Cardinality(calls) \in Nat
  BY <1>1, FS_CardinalityType DEF OpFits
<1>3. n \in Nat /\ n <= 2
  BY <1>2 DEF OpFits, Width
<1>4. NextFiles(o) = CHOOSE S \in SUBSET calls : Cardinality(S) = Min({Cardinality(calls), n})
  BY DEF NextFiles, Width
<1>. HIDE DEF calls, n
<1>5. \E S \in SUBSET calls : Cardinality(S) = Min({Cardinality(calls), n})
  BY <1>1, <1>3, FilesToSend
<1>6. NextFiles(o) \in SUBSET calls /\ Cardinality(NextFiles(o)) = Min({Cardinality(calls), n})
  BY <1>4, <1>5
<1>7. IsFiniteSet(NextFiles(o)) /\ Cardinality(NextFiles(o)) \in Nat
  BY <1>1, <1>6, FS_Subset, FS_CardinalityType
<1>8. Min({Cardinality(calls), n}) <= n
  <2>1. \E x \in {Cardinality(calls), n} : \A y \in {Cardinality(calls), n} : x <= y
    BY <1>2, <1>3
  <2>. QED BY <2>1 DEF Min
<1>9. Cardinality(Flying(o) \union NextFiles(o)) <= Cardinality(Flying(o)) + Cardinality(NextFiles(o))
  <2>1. IsFiniteSet(Flying(o))
    BY DEF OpFits
  <2>2. IsFiniteSet(Flying(o) \cap NextFiles(o))
    BY <2>1, FS_Intersection
  <2>3. Cardinality(Flying(o) \cap NextFiles(o)) \in Nat
    BY <2>2, FS_CardinalityType
  <2>4. Cardinality(Flying(o) \union NextFiles(o)) =
          Cardinality(Flying(o)) + Cardinality(NextFiles(o)) - Cardinality(Flying(o) \cap NextFiles(o))
    BY <1>7, <2>1, FS_Union
  <2>. QED BY <1>2, <1>7, <2>3, <2>4
<1>10. Cardinality(Flying(o) \union NextFiles(o)) <= Width(o)
  <2>1. Cardinality(Flying(o) \union NextFiles(o)) \in Nat
    BY <1>7, FS_Union, FS_CardinalityType DEF OpFits
  <2>2. Width(o) \in Nat
    BY DEF Width
  <2>. QED BY <1>2, <1>6, <1>7, <1>8, <1>9, <2>1, <2>2 DEF n
<1>. QED BY <1>6, <1>7, <1>10 DEF calls

(* What an operation o that goes on is then: n. *)
GoesOn(o, n) ==
  /\ OpFits(n)
  /\ n.kind = o.kind /\ n.back = o.back /\ n.landed = o.landed
  /\ o.kind = "drop" => n.sent = o.sent
  /\ o.steps = {} =>
       /\ n.steps = {}
       /\ (\A c \in Flying(o) : c.do = "put") => \A c \in Flying(n) : c.do = "put"
       /\ o.files = {} => n.files = {} /\ n.sent = o.sent
  /\ \A x : o.steps = {x} /\ Flying(o) = {} /\ o.kind \notin {"drop", "folder"} =>
       n.steps = {} /\ n.sent = {x} /\ n.files = o.files \ {x.path}

LEMMA SendsWell ==
  ASSUME NEW o, OpFits(o), NEW stop
  PROVE  GoesOn(o, Sends(o, stop))
<1>0. PICK n : n = Sends(o, stop)
  OBVIOUS
<1>. DEFINE calls == IF o.kind = "drop" \/ (o.kind = "folder" /\ stop) THEN {} ELSE NextCalls(o)
            puts == {Call("put", f, <<>>) : f \in o.files}
<1>1. n = [o EXCEPT !.steps = @ \ calls, !.files = @ \ {c.path : c \in calls}, !.sent = @ \union calls]
  BY <1>0 DEF Sends
<1>2. \/ calls = {}
      \/ calls = {LeastCall(o.steps)} /\ Flying(o) = {} /\ o.steps # {}
      \/ /\ calls = NextFiles(o) /\ o.steps = {} /\ \A c \in Flying(o) : c.do = "put"
         /\ calls \subseteq puts
  BY FilesSent DEF NextCalls, NextSteps
<1>3. o.steps = {} => calls \subseteq puts
  BY <1>2
<1>4. \A x : o.steps = {x} /\ Flying(o) = {} /\ o.kind \notin {"drop", "folder"} => calls = {x}
  BY DEF NextCalls, NextSteps, LeastCall
<1>5. IsFiniteSet(Flying(o) \union calls) /\ Cardinality(Flying(o) \union calls) <= Width(o)
  <2>1. CASE calls = {}
    BY <2>1 DEF OpFits
  <2>2. ASSUME NEW x, calls = {x}, Flying(o) = {}
        PROVE  IsFiniteSet(Flying(o) \union calls) /\ Cardinality(Flying(o) \union calls) <= Width(o)
    <3>1. Flying(o) \union calls = {x}
      BY <2>2
    <3>2. IsFiniteSet({x}) /\ Cardinality({x}) = 1
      BY FS_Singleton
    <3>. QED BY <3>1, <3>2 DEF Width
  <2>3. CASE calls = NextFiles(o)
    BY <2>3, FilesSent, FS_Union DEF OpFits
  <2>. QED BY <1>2, <2>1, <2>2, <2>3
<1>6. /\ \A c \in puts : c.do = "put"
      /\ o.files = {} => puts = {}
  BY DEF Call
<1>. HIDE DEF calls, puts
<1>7. /\ n = [kind |-> o.kind, steps |-> o.steps \ calls, files |-> o.files \ {c.path : c \in calls},
              sent |-> o.sent \union calls, back |-> o.back, landed |-> o.landed]
  BY <1>1 DEF OpFits, IsOp
<1>8. Flying(n) = Flying(o) \union calls
  BY <1>7 DEF Flying
<1>9. IsOp(n) /\ n.kind \in OpKinds /\ Width(n) = Width(o) /\ IsFiniteSet(n.files)
  <2>1. n.files \subseteq o.files /\ IsFiniteSet(o.files)
    BY <1>7 DEF OpFits
  <2>2. IsFiniteSet(n.files)
    BY <2>1, FS_Subset
  <2>. QED BY <1>7, <2>2 DEF IsOp, Width, OpFits
<1>10. StepAlone(n)
  <2>1. CASE calls = {}
    BY <1>7, <2>1 DEF OpFits, StepAlone
  <2>2. CASE calls = {LeastCall(o.steps)} /\ Flying(o) = {}
    BY <1>7, <2>2 DEF Flying, StepAlone
  <2>3. CASE calls \subseteq puts /\ \A c \in Flying(o) : c.do = "put"
    BY <1>6, <1>7, <2>3 DEF Flying, StepAlone
  <2>. QED BY <1>2, <2>1, <2>2, <2>3
<1>11. o.kind = "drop" => calls = {}
  BY DEF calls
<1>12. OpFits(n)
  BY <1>5, <1>8, <1>9, <1>10 DEF OpFits
<1>13. \A x : calls = {x} => {c.path : c \in calls} = {x.path}
  OBVIOUS
<1>14. o.steps = {} =>
              /\ n.steps = {}
              /\ (\A c \in Flying(o) : c.do = "put") => \A c \in Flying(n) : c.do = "put"
              /\ o.files = {} => n.files = {} /\ n.sent = o.sent
  BY <1>3, <1>6, <1>7, <1>8
<1>15. \A x : o.steps = {x} /\ Flying(o) = {} /\ o.kind \notin {"drop", "folder"} =>
              n.steps = {} /\ n.sent = {x} /\ n.files = o.files \ {x.path}
  BY <1>4, <1>7, <1>13 DEF Flying
<1>16. GoesOn(o, n)
  BY <1>7, <1>11, <1>12, <1>14, <1>15 DEF GoesOn
<1>. QED BY <1>0, <1>16, Zenon

WithAnswer(l, answer, names) == [l EXCEPT !.answer = answer, !.names = names]

LEMMA LoadChanges ==
  ASSUME NEW l, IsLoad(l)
  PROVE  /\ l.answer \in {"none", "list", "error"}
         /\ \A m : m = [l EXCEPT !.live = FALSE] => IsLoad(m) /\ ~m.live
         /\ \A names : \A answer \in {"list", "error"} :
              /\ IsLoad(WithAnswer(l, answer, names))
              /\ WithAnswer(l, answer, names).path = l.path
              /\ WithAnswer(l, answer, names).live = l.live
              /\ WithAnswer(l, answer, names).names = names
<1>1. PICK path, had, was, live :
        /\ l = [path |-> path, answer |-> was, names |-> had, live |-> live]
        /\ was \in {"none", "list", "error"} /\ live \in BOOLEAN
  BY DEF IsLoad
<1>2. ASSUME NEW m, m = [l EXCEPT !.live = FALSE] PROVE IsLoad(m) /\ ~m.live
  <2>1. m = [path |-> path, answer |-> was, names |-> had, live |-> FALSE]
    BY <1>1, <1>2
  <2>2. ~m.live
    BY <2>1
  <2>. QED BY <1>1, <2>1, <2>2 DEF IsLoad
<1>3. ASSUME NEW names, NEW answer \in {"list", "error"}
      PROVE  /\ IsLoad(WithAnswer(l, answer, names))
             /\ WithAnswer(l, answer, names).path = l.path
             /\ WithAnswer(l, answer, names).live = l.live
             /\ WithAnswer(l, answer, names).names = names
  <2>0. PICK m : m = WithAnswer(l, answer, names)
    OBVIOUS
  <2>1. m = [path |-> path, answer |-> answer, names |-> names, live |-> live]
    BY <1>1, <2>0 DEF WithAnswer
  <2>2. m.path = l.path /\ m.live = l.live /\ m.names = names
    BY <1>1, <2>1
  <2>3. IsLoad(m)
    BY <1>1, <2>1 DEF IsLoad
  <2>. QED BY <2>0, <2>2, <2>3, Zenon
<1>4. l.answer \in {"none", "list", "error"}
  BY <1>1
<1>. QED BY <1>2, <1>3, <1>4

(* The sequence of the lists with one more, and with one less. *)
More(s, e) == Append(CancelOlder(s), e)

LEMMA OneMore ==
  ASSUME NEW S, NEW s \in Seq(S), NEW e, NEW t, t = More(s, e),
         \A i \in DOMAIN s : IsLoad(s[i]), IsLoad(e)
  PROVE  /\ \E T : t \in Seq(T)
         /\ \A i \in DOMAIN t : IsLoad(t[i]) /\ (t[i] = e \/ ~t[i].live)
<1>. DEFINE T == {[s[i] EXCEPT !.live = FALSE] : i \in DOMAIN s} \union {e}
<1>1. CancelOlder(s) \in Seq(T) /\ Len(CancelOlder(s)) = Len(s)
  BY DEF CancelOlder
<1>2. ASSUME NEW i \in DOMAIN s
      PROVE  IsLoad([s[i] EXCEPT !.live = FALSE]) /\ ~[s[i] EXCEPT !.live = FALSE].live
  BY LoadChanges
<1>3. \A x \in T : IsLoad(x) /\ (x = e \/ ~x.live)
  BY <1>2
<1>. HIDE DEF T
<1>4. t \in Seq(T) \/ e \notin T
  BY <1>1 DEF More
<1>5. e \in T
  BY DEF T
<1>. QED BY <1>3, <1>4, <1>5

(* The sequences a and b are s up to i and after it. *)
Around(S, s, i, a, b) ==
  /\ s \in Seq(S) /\ i \in 1..Len(s) /\ a \in Seq(S) /\ b \in Seq(S)
  /\ Len(a) = i - 1 /\ \A k \in 1..(i - 1) : a[k] = s[k]
  /\ Len(b) = Len(s) - i /\ \A k \in 1..(Len(s) - i) : b[k] = s[i + k]

LEMMA Joined ==
  ASSUME NEW S, NEW s, NEW i, NEW a, NEW b, Around(S, s, i, a, b)
  PROVE  a \o b \in Seq(S) /\ \A k \in DOMAIN (a \o b) : \E j \in DOMAIN s : (a \o b)[k] = s[j]
<1>. USE DEF Around
<1>1. Len(s) \in Nat /\ i \in Nat /\ i <= Len(s) /\ i >= 1
  OBVIOUS
<1>2. a \o b \in Seq(S) /\ Len(a \o b) = Len(a) + Len(b)
  BY ConcatProperties
<1>3. ASSUME NEW k \in DOMAIN (a \o b) PROVE \E j \in DOMAIN s : (a \o b)[k] = s[j]
  <2>1. k \in Nat /\ k >= 1 /\ k <= Len(s) - 1
    BY <1>1, <1>2
  <2>2. CASE k <= i - 1
    <3>1. (a \o b)[k] = a[k] /\ k \in 1..(i - 1)
      BY <1>1, <2>1, <2>2
    <3>2. k \in DOMAIN s
      BY <1>1, <2>1
    <3>. QED BY <3>1, <3>2
  <2>3. CASE k > i - 1
    <3>1. k - (i - 1) \in 1..(Len(s) - i)
      BY <1>1, <2>1, <2>3
    <3>2. (a \o b)[k] = b[k - (i - 1)]
      BY <1>1, <2>1, <2>3
    <3>3. b[k - (i - 1)] = s[i + (k - (i - 1))]
      BY <3>1
    <3>4. i + (k - (i - 1)) = k + 1 /\ k + 1 \in DOMAIN s
      BY <1>1, <2>1
    <3>. QED BY <3>2, <3>3, <3>4
  <2>. QED BY <1>1, <2>1, <2>2, <2>3
<1>. QED BY <1>2, <1>3

Less(s, i) == SubSeq(s, 1, i - 1) \o SubSeq(s, i + 1, Len(s))

LEMMA OneLess ==
  ASSUME NEW S, NEW s \in Seq(S), NEW i \in DOMAIN s, NEW t, t = Less(s, i)
  PROVE  t \in Seq(S) /\ \A k \in DOMAIN t : \E j \in DOMAIN s : t[k] = s[j]
<1>1. i \in 1..Len(s) /\ Len(s) \in Nat
  OBVIOUS
<1>2. /\ SubSeq(s, 1, i - 1) \in Seq(S) /\ Len(SubSeq(s, 1, i - 1)) = i - 1
      /\ \A k \in 1..(i - 1) : SubSeq(s, 1, i - 1)[k] = s[k]
  BY <1>1
<1>3. /\ SubSeq(s, i + 1, Len(s)) \in Seq(S) /\ Len(SubSeq(s, i + 1, Len(s))) = Len(s) - i
      /\ \A k \in 1..(Len(s) - i) : SubSeq(s, i + 1, Len(s))[k] = s[i + k]
  BY <1>1
<1>4. PICK a, b : a = SubSeq(s, 1, i - 1) /\ b = SubSeq(s, i + 1, Len(s))
  OBVIOUS
<1>5. a \o b \in Seq(S) /\ \A k \in DOMAIN (a \o b) : \E j \in DOMAIN s : (a \o b)[k] = s[j]
  <2>1. Around(S, s, i, a, b)
    <3>1. a \in Seq(S) /\ Len(a) = i - 1 /\ \A k \in 1..(i - 1) : a[k] = s[k]
      BY <1>2, <1>4, Zenon
    <3>2. b \in Seq(S) /\ Len(b) = Len(s) - i /\ \A k \in 1..(Len(s) - i) : b[k] = s[i + k]
      BY <1>3, <1>4, Zenon
    <3>. QED BY <1>1, <3>1, <3>2, Zenon DEF Around
  <2>. QED BY <2>1, Joined
<1>6. t = a \o b
  BY <1>4, Zenon DEF Less
<1>. QED BY <1>5, <1>6, Zenon

LEMMA ViewChanges ==
  ASSUME NEW v, IsView(v)
  PROVE  /\ \A w : w = [v EXCEPT !.loading = TRUE, !.error = FALSE] => IsView(w) /\ w.loading
         /\ \A w : w = [v EXCEPT !.loading = FALSE, !.error = TRUE] => IsView(w) /\ w.error
         /\ \A w, n : w = [v EXCEPT !.loading = FALSE, !.names = n] => IsView(w) /\ w.names = n
<1>1. PICK names, loading, error :
        /\ v = [names |-> names, loading |-> loading, error |-> error]
        /\ loading \in BOOLEAN /\ error \in BOOLEAN
  BY DEF IsView
<1>2. ASSUME NEW w, w = [v EXCEPT !.loading = TRUE, !.error = FALSE] PROVE IsView(w) /\ w.loading
  <2>1. w = [names |-> names, loading |-> TRUE, error |-> FALSE]
    BY <1>1, <1>2
  <2>. QED BY <2>1 DEF IsView
<1>3. ASSUME NEW w, w = [v EXCEPT !.loading = FALSE, !.error = TRUE] PROVE IsView(w) /\ w.error
  <2>1. w = [names |-> names, loading |-> FALSE, error |-> TRUE]
    BY <1>1, <1>3
  <2>. QED BY <2>1 DEF IsView
<1>4. ASSUME NEW w, NEW n, w = [v EXCEPT !.loading = FALSE, !.names = n] PROVE IsView(w) /\ w.names = n
  <2>1. w = [names |-> n, loading |-> FALSE, error |-> error]
    BY <1>1, <1>4
  <2>. QED BY <1>1, <2>1 DEF IsView
<1>. QED BY <1>2, <1>3, <1>4

(* A new list of the directory of now leaves nothing of the old ones to be shown. *)
LEMMA LoadIsFresh ==
  ASSUME LoadsOk, IsView(view), LoadEntries(cwd')
  PROVE  LoadsOk' /\ IsView(view)' /\ Fresh'
<1>. DEFINE e == [path |-> cwd', answer |-> "none", names |-> {}, live |-> TRUE]
<1>1. PICK S : loads \in Seq(S)
  BY DEF LoadsOk
<1>2. loads' = More(loads, e)
  BY DEF LoadEntries, More
<1>3. IsLoad(e) /\ e.path = cwd' /\ e.answer = "none"
  BY DEF IsLoad
<1>4. \A i \in DOMAIN loads : IsLoad(loads[i])
  BY DEF LoadsOk
<1>. HIDE DEF e
<1>5. /\ \E T : loads' \in Seq(T)
      /\ \A i \in DOMAIN loads' : IsLoad(loads'[i]) /\ (loads'[i] = e \/ ~loads'[i].live)
  BY <1>1, <1>2, <1>3, <1>4, OneMore
<1>6. IsView(view)' /\ view'.loading
  BY ViewChanges DEF LoadEntries
<1>7. LoadsOk'
  BY <1>3, <1>5 DEF LoadsOk, IsLoad
<1>. QED BY <1>3, <1>5, <1>6, <1>7 DEF Fresh

(* A step that leaves the realm and the operations as they are to the page. *)
LEMMA PageSteps ==
  ASSUME ExplorerInv,
         \/ \E p \in tree \union {<<>>} : GoTo(p)
         \/ HandleRefresh \/ CancelUpload
         \/ \E i \in DOMAIN loads : ShowList(i) \/ \E failed \in BOOLEAN : AnswerList(i, failed)
  PROVE  ExplorerInv'
<1>0. op' = op /\ unsure' = unsure /\ tree' = tree
  BY DEF GoTo, HandleRefresh, CancelUpload, UserMoves, ShowList, AnswerList
<1>1. /\ op' = [q \in Ops |-> op'[q]] /\ \A q \in Ops : OpOk(op'[q])
      /\ Calm' => Calm
  BY <1>0 DEF ExplorerInv, Calm, Under
<1>2. LoadsOk /\ IsView(view)
  BY DEF ExplorerInv
<1>3. ASSUME NEW p, LoadEntries(p), cwd' = p PROVE LoadsOk' /\ IsView(view)' /\ Fresh'
  BY <1>2, <1>3, LoadIsFresh
<1>4. CASE \E p \in tree \union {<<>>} : GoTo(p)
  BY <1>1, <1>3, <1>4 DEF GoTo, ExplorerInv
<1>5. CASE HandleRefresh
  BY <1>1, <1>3, <1>5 DEF HandleRefresh, ExplorerInv
<1>6. CASE CancelUpload
  BY <1>0, <1>1, <1>2, <1>6 DEF CancelUpload, ExplorerInv, LoadsOk, Fresh, IsView, Children
<1>7. ASSUME NEW i \in DOMAIN loads, NEW failed \in BOOLEAN, AnswerList(i, failed)
      PROVE  ExplorerInv'
  <2>1. PICK S : loads \in Seq(S)
    BY <1>2 DEF LoadsOk
  <2>2. PICK answer \in {"list", "error"} :
          loads' = [loads EXCEPT ![i] = WithAnswer(@, answer, Children(loads[i].path))]
    BY <1>7 DEF AnswerList, WithAnswer
  <2>. DEFINE e == WithAnswer(loads[i], answer, Children(loads[i].path))
  <2>3. IsLoad(e) /\ e.path = loads[i].path /\ e.live = loads[i].live /\ e.names = Children(e.path)
    <3>1. IsLoad(loads[i])
      BY <1>2 DEF LoadsOk
    <3>2. IsLoad(e) /\ e.path = loads[i].path /\ e.live = loads[i].live /\ e.names = Children(loads[i].path)
      BY <3>1, LoadChanges
    <3>. QED BY <3>2
  <2>9. loads' = [loads EXCEPT ![i] = e]
    BY <2>2
  <2>. HIDE DEF e
  <2>4. loads' \in Seq(S \union {e}) /\ DOMAIN loads' = DOMAIN loads
    BY <2>1, <2>9
  <2>5. \A j \in DOMAIN loads' : loads'[j] = IF j = i THEN e ELSE loads[j]
    BY <2>1, <2>9
  <2>6. cwd' = cwd /\ view' = view /\ \A p : Children(p)' = Children(p)
    BY <1>0, <1>7 DEF AnswerList, Children
  <2>7. LoadsOk'
    BY <1>2, <2>3, <2>4, <2>5, <2>6 DEF LoadsOk
  <2>8. Fresh => Fresh'
    BY <1>2, <2>3, <2>4, <2>5, <2>6 DEF Fresh, LoadsOk
  <2>. QED BY <1>1, <2>6, <2>7, <2>8 DEF ExplorerInv, IsView
<1>8. ASSUME NEW i \in DOMAIN loads, ShowList(i) PROVE ExplorerInv'
  <2>1. PICK S : loads \in Seq(S)
    BY <1>2 DEF LoadsOk
  <2>2. loads' \in Seq(S) /\ \A k \in DOMAIN loads' : \E j \in DOMAIN loads : loads'[k] = loads[j]
    <3>1. loads' = Less(loads, i)
      BY <1>8, Zenon DEF ShowList, Less
    <3>. QED BY <2>1, <3>1, OneLess
  <2>3. cwd' = cwd /\ \A p : Children(p)' = Children(p)
    BY <1>0, <1>8 DEF ShowList, Children
  <2>4. LoadsOk'
    BY <1>2, <2>2, <2>3 DEF LoadsOk
  <2>5. IsView(view)'
    <3>1. \/ view' = view
          \/ view' = [view EXCEPT !.loading = FALSE, !.error = TRUE]
          \/ view' = [view EXCEPT !.loading = FALSE, !.names = loads[i].names]
      BY <1>8 DEF ShowList
    <3>2. view' = view => IsView(view)'
      BY <1>2 DEF IsView
    <3>3. \A w : \/ w = [view EXCEPT !.loading = FALSE, !.error = TRUE]
               \/ w = [view EXCEPT !.loading = FALSE, !.names = loads[i].names] => IsView(w)
      BY <1>2, ViewChanges
    <3>4. IsView(view')
      BY <1>2, <3>1, <3>3
    <3>. QED BY <3>4 DEF IsView
  <2>6. ASSUME Fresh, ~view'.loading, ~view'.error PROVE view'.names = Children(cwd')
    <3>1. CASE ~loads[i].live
      BY <1>8, <2>3, <2>6, <3>1 DEF ShowList, Fresh
    <3>2. CASE loads[i].live
      <4>1. /\ loads[i].answer # "error"
            /\ view' = [view EXCEPT !.loading = FALSE, !.names = loads[i].names]
        BY <1>2, <1>8, <2>6, <3>2, ViewChanges DEF ShowList
      <4>2. loads[i].answer = "list"
        BY <1>2, <1>8, <4>1, LoadChanges DEF ShowList, LoadsOk
      <4>. QED BY <1>2, <2>3, <2>6, <3>2, <4>1, <4>2 DEF Fresh, IsView
    <3>. QED BY <3>1, <3>2
  <2>7. Fresh => Fresh'
    BY <2>2, <2>3, <2>6 DEF Fresh
  <2>. QED BY <1>1, <2>4, <2>5, <2>7 DEF ExplorerInv
<1>. QED BY <1>4, <1>5, <1>6, <1>7, <1>8

(* An operation of the page begins: it has changed nothing yet. *)
LEMMA OperationKeeps ==
  ASSUME ExplorerInv, NEW q \in Ops, NEW kind \in OpKinds \ {"none", "over"}, NEW steps, NEW files,
         Begin(q, kind, steps, files), IsFiniteSet(files),
         kind \in {"create", "delete", "moveCopy"} => files = {} /\ \E x : steps = {x},
         kind = "files" => steps = {}
  PROVE  ExplorerInv'
<1>. DEFINE o == [kind |-> kind, steps |-> steps, files |-> files, sent |-> {}, back |-> {}, landed |-> {}]
            n == Sends(o, FALSE)
<1>1. op' = [op EXCEPT ![q] = n] /\ UNCHANGED <<tree, cwd, loads, view, unsure>>
  <2>2. PICK b : b = [NotBegun EXCEPT !.kind = kind, !.steps = steps, !.files = files]
    OBVIOUS
  <2>3. b = o
    BY <2>2 DEF NotBegun
  <2>4. op' = [op EXCEPT ![q] = Sends(b, FALSE)] /\ UNCHANGED <<tree, cwd, loads, view, unsure>>
    BY <2>2 DEF Begin
  <2>. HIDE DEF o
  <2>. QED BY <2>3, <2>4
<1>2. Flying(o) = {} /\ IsFiniteSet(Flying(o)) /\ Cardinality(Flying(o)) = 0
  BY FS_EmptySet DEF Flying
<1>3. OpFits(o)
  BY <1>2 DEF OpFits, IsOp, Width, StepAlone
<1>4. /\ OpFits(n) /\ n.kind = kind /\ n.back = {} /\ n.landed = {}
      /\ kind = "drop" => n.sent = {}
      /\ steps = {} => n.steps = {} /\ \A c \in Flying(n) : c.do = "put"
      /\ \A x : steps = {x} /\ kind \notin {"drop", "folder"} =>
           n.steps = {} /\ n.sent = {x} /\ n.files = files \ {x.path}
  <2>1. /\ o.kind = kind /\ o.back = {} /\ o.landed = {} /\ o.sent = {}
        /\ o.steps = steps /\ o.files = files /\ \A c \in Flying(o) : c.do = "put"
    BY <1>2
  <2>2. PICK m : m = n
    OBVIOUS
  <2>. HIDE DEF o, n
  <2>3. GoesOn(o, m)
    <3>1. m = Sends(o, FALSE)
      BY <2>2 DEF n
    <3>. QED BY <1>3, <3>1, SendsWell, Zenon
  <2>. QED BY <1>2, <2>1, <2>2, <2>3 DEF GoesOn
<1>. HIDE DEF o, n
<1>5. OpOk(n)
  <2>1. kind \in {"create", "delete", "moveCopy"} => OneCall(n)
    BY <1>4 DEF OneCall
  <2>. QED BY <1>4, <2>1 DEF OpOk
<1>6. op' = [r \in Ops |-> op'[r]] /\ \A r \in Ops : op'[r] = IF r = q THEN n ELSE op[r]
  BY <1>1 DEF ExplorerInv
<1>7. Calm' => Calm
  <2>1. op[q].kind = "none"
    BY DEF Begin
  <2>. QED BY <1>1, <1>6, <2>1 DEF Calm, Under, HasChanged
<1>8. \A r \in Ops : OpOk(op'[r])
  BY <1>5, <1>6 DEF ExplorerInv
<1>9. LoadsOk' /\ IsView(view)' /\ (Fresh => Fresh')
  BY <1>1 DEF ExplorerInv, LoadsOk, IsView, Fresh, Children
<1>. QED BY <1>6, <1>7, <1>8, <1>9 DEF ExplorerInv

LEMMA PlacedFinite ==
  ASSUME NEW sel \in Uploads
  PROVE  IsFiniteSet(Placed(sel))
<1>1. IsFiniteSet(sel)
  BY ExplorerAssumption
<1>2. [f \in sel |-> cwd \o f] \in Surjection(sel, Placed(sel))
  BY DEF Surjection, Placed
<1>. QED BY <1>1, <1>2, FS_Surjection

LEMMA OperationsBegin ==
  ASSUME ExplorerInv, NEW q \in Ops,
         \/ \E n \in FolderNames : CreateFolder(q, n)
         \/ \E p \in view.names : DeletePath(q, p)
         \/ \E p \in view.names, to \in Targets, do \in {"mv", "cp"} : MoveCopy(q, do, p, to)
         \/ \E sel \in Uploads :
              DoUploadFiles(q, sel) \/ UploadFolder(q, sel) \/ DropFiles(q, sel)
  PROVE  ExplorerInv'
<1>1. ASSUME NEW kind \in {"create", "delete", "moveCopy"}, NEW x, Begin(q, kind, {x}, {})
      PROVE  ExplorerInv'
  <2>1. IsFiniteSet({})
    BY FS_EmptySet
  <2>2. kind \in OpKinds \ {"none", "over"}
    BY DEF OpKinds
  <2>. QED BY <1>1, <2>1, <2>2, OperationKeeps
<1>2. ASSUME NEW kind \in {"files", "folder", "drop"}, NEW steps, NEW sel \in Uploads,
             Begin(q, kind, steps, Placed(sel)), kind = "files" => steps = {}
      PROVE  ExplorerInv'
  <2>1. kind \in OpKinds \ {"none", "over"}
    BY DEF OpKinds
  <2>. QED BY <1>2, <2>1, PlacedFinite, OperationKeeps
<1>. QED BY <1>1, <1>2 DEF CreateFolder, DeletePath, MoveCopy, DoUploadFiles, UploadFolder, DropFiles

(* What was dropped is collected and is now the files of a folder, or directories. *)
LEMMA CollectedKeeps ==
  ASSUME ExplorerInv, NEW q \in Ops, Collected(q)
  PROVE  ExplorerInv'
<1>1. PICK o, n : /\ n = Sends(o, FALSE) /\ op' = [op EXCEPT ![q] = n]
                  /\ \/ o = [op[q] EXCEPT !.kind = "folder"]
                     \/ o = [op[q] EXCEPT !.kind = "dirs", !.files = {}]
  BY DEF Collected
<1>2. OpOk(op[q]) /\ op[q].kind = "drop"
  BY DEF ExplorerInv, Collected
<1>3. op[q].sent = {} /\ op[q].back = {} /\ op[q].landed = {} /\ IsOp(op[q]) /\ IsFiniteSet(op[q].files)
  BY <1>2 DEF OpOk, OpFits
<1>4. /\ o = [kind |-> o.kind, steps |-> o.steps, files |-> o.files, sent |-> {}, back |-> {}, landed |-> {}]
      /\ o.kind \in {"folder", "dirs"} /\ o.files \in {op[q].files, {}}
  BY <1>1, <1>3 DEF IsOp
<1>5. Flying(o) = {} /\ IsFiniteSet(Flying(o)) /\ Cardinality(Flying(o)) = 0 /\ IsFiniteSet(o.files)
  BY <1>3, <1>4, FS_EmptySet DEF Flying
<1>6. OpFits(o)
  BY <1>4, <1>5 DEF OpFits, IsOp, Width, StepAlone, OpKinds
<1>7. OpFits(n) /\ n.kind = o.kind /\ n.back = o.back /\ n.landed = o.landed
  <2>1. GoesOn(o, n)
    BY <1>1, <1>6, SendsWell, Zenon
  <2>. QED BY <2>1 DEF GoesOn
<1>8. OpOk(n) /\ ~HasChanged(n)
  BY <1>4, <1>7 DEF OpOk, HasChanged
<1>9. op' = [r \in Ops |-> op'[r]] /\ \A r \in Ops : op'[r] = IF r = q THEN n ELSE op[r]
  BY <1>1 DEF ExplorerInv
<1>10. UNCHANGED <<tree, cwd, loads, view, unsure>>
  BY DEF Collected
<1>11. Calm' => Calm
  BY <1>2, <1>3, <1>9, <1>10 DEF Calm, Under, HasChanged
<1>12. LoadsOk' /\ IsView(view)' /\ (Fresh => Fresh')
  BY <1>10 DEF ExplorerInv, LoadsOk, IsView, Fresh, Children
<1>. QED BY <1>8, <1>9, <1>11, <1>12 DEF ExplorerInv

(* The realm performs a call: then the operation has changed something, or the *)
(* page cannot know.                                                            *)
LEMMA PerformKeeps ==
  ASSUME ExplorerInv, NEW q \in Ops, NEW c \in op[q].sent, NEW how \in {"done", "refused", "lost"},
         Perform(q, c, how)
  PROVE  ExplorerInv'
<1>. DEFINE b == [call |-> c, ok |-> how = "done"]
<1>1. PICK o : o = op[q]
  OBVIOUS
<1>2. PICK n : n = [o EXCEPT !.sent = @ \ {c}, !.back = @ \union {b}]
  OBVIOUS
<1>3. op' = [op EXCEPT ![q] = n] /\ UNCHANGED <<cwd, loads, view>>
  BY <1>1, <1>2 DEF Perform
<1>4. OpOk(o) /\ c \in o.sent
  BY <1>1 DEF ExplorerInv
<1>5. /\ n = [kind |-> n.kind, steps |-> n.steps, files |-> n.files, sent |-> n.sent, back |-> n.back,
              landed |-> n.landed]
      /\ n.kind = o.kind /\ n.steps = o.steps /\ n.files = o.files /\ n.landed = o.landed
      /\ n.sent = o.sent \ {c} /\ n.back = o.back \union {b}
  BY <1>2, <1>4 DEF OpOk, OpFits, IsOp
<1>6. b.call = c /\ (b.ok <=> how = "done")
  OBVIOUS
<1>. HIDE DEF b
<1>7. Flying(n) = Flying(o)
  BY <1>4, <1>5, <1>6 DEF Flying
<1>8. StepAlone(n)
  BY <1>4, <1>5, <1>6 DEF OpOk, OpFits, StepAlone
<1>9. OpFits(n)
  BY <1>4, <1>5, <1>7, <1>8 DEF OpOk, OpFits, IsOp, Width
<1>10. OneCall(o) => OneCall(n)
  BY <1>4, <1>5 DEF OneCall
<1>11. OpOk(n)
  BY <1>4, <1>5, <1>7, <1>9, <1>10 DEF OpOk
<1>12. op' = [r \in Ops |-> op'[r]] /\ \A r \in Ops : op'[r] = IF r = q THEN n ELSE op[r]
  BY <1>3 DEF ExplorerInv
<1>13. ASSUME Calm' PROVE Calm /\ tree' = tree
  <2>1. ~unsure /\ how # "lost"
    BY <1>13 DEF Perform, Calm
  <2>2. n.kind \notin {"none", "over"}
    BY <1>4, <1>5 DEF OpOk
  <2>3. ~HasChanged(n)
    BY <1>12, <1>13, <2>2 DEF Calm, Under
  <2>4. how = "refused"
    BY <1>5, <1>6, <2>1, <2>3 DEF HasChanged
  <2>5. ~HasChanged(o)
    BY <1>5, <2>3 DEF HasChanged
  <2>6. Calm
    <3>1. SUFFICES ASSUME NEW r \in Ops, Under(r), r # q PROVE ~HasChanged(op[r])
      BY <1>1, <2>1, <2>5 DEF Calm
    <3>. QED BY <1>12, <1>13, <3>1 DEF Calm, Under
  <2>. QED BY <2>4, <2>6 DEF Perform
<1>14. LoadsOk' /\ IsView(view)'
  BY <1>3 DEF ExplorerInv, LoadsOk, IsView
<1>15. Calm' => Fresh'
  BY <1>3, <1>13 DEF ExplorerInv, Fresh, Children
<1>. QED BY <1>11, <1>12, <1>14, <1>15 DEF ExplorerInv

(* An operation hears an answer: it goes on, or it ends; when it has changed *)
(* something the list is read anew or the page cannot know.                   *)
LEMMA HearKeeps ==
  ASSUME ExplorerInv, NEW q \in Ops, NEW b \in op[q].back, Hear(q, b)
  PROVE  ExplorerInv'
<1>. DEFINE fails == ~b.ok /\ b.call.do # "put"
<1>1. PICK o : o = op[q]
  OBVIOUS
<1>2. PICK h : h = [o EXCEPT !.back = @ \ {b},
                              !.landed = IF b.ok THEN @ \union {b.call.path} ELSE @]
  OBVIOUS
<1>3. PICK n : n = IF fails THEN h ELSE Sends(h, cancel)
  OBVIOUS
<1>. DEFINE over == fails \/ Flying(n) = {}
<1>4. PICK m : m = IF over THEN [n EXCEPT !.kind = "over"] ELSE n
  OBVIOUS
<1>5. /\ op' = [op EXCEPT ![q] = m]
      /\ unsure' = (unsure \/ (fails /\ o.kind \in {"folder", "dirs"}))
      /\ IF over /\ ~fails /\ (o.kind = "files" => n.landed # {})
         THEN LoadEntries(cwd) ELSE UNCHANGED <<loads, view>>
      /\ UNCHANGED <<tree, cwd>>
  BY <1>1, <1>2, <1>3, <1>4 DEF Hear
<1>6. OpOk(o) /\ b \in o.back
  BY <1>1 DEF ExplorerInv
<1>7. /\ h = [kind |-> h.kind, steps |-> h.steps, files |-> h.files, sent |-> h.sent, back |-> h.back,
              landed |-> h.landed]
      /\ h.kind = o.kind /\ h.steps = o.steps /\ h.files = o.files /\ h.sent = o.sent
      /\ h.back = o.back \ {b} /\ h.landed = IF b.ok THEN o.landed \union {b.call.path} ELSE o.landed
  BY <1>2, <1>6 DEF OpOk, OpFits, IsOp
<1>8. Flying(h) \subseteq Flying(o) /\ b.call \in Flying(o)
  BY <1>6, <1>7 DEF Flying
<1>9. IsFiniteSet(Flying(h)) /\ Cardinality(Flying(h)) <= Width(h)
  <2>1. IsFiniteSet(Flying(o)) /\ Cardinality(Flying(o)) <= Width(o) /\ Width(h) = Width(o)
    BY <1>6, <1>7 DEF OpOk, OpFits, Width
  <2>2. IsFiniteSet(Flying(h)) /\ Cardinality(Flying(h)) <= Cardinality(Flying(o))
    BY <1>8, <2>1, FS_Subset
  <2>3. Cardinality(Flying(h)) \in Nat /\ Cardinality(Flying(o)) \in Nat /\ Width(o) \in Nat
    BY <2>1, <2>2, FS_CardinalityType DEF Width
  <2>. QED BY <2>1, <2>2, <2>3
<1>10. OpFits(h)
  <2>1. StepAlone(h)
    BY <1>6, <1>7 DEF OpOk, OpFits, StepAlone
  <2>. QED BY <1>6, <1>7, <1>9, <2>1 DEF OpOk, OpFits, IsOp
<1>11. fails => n = h
  BY <1>3
<1>12. ~fails => GoesOn(h, n)
  BY <1>3, <1>10, SendsWell, Zenon
<1>13. fails => n.sent = {} /\ n.back = {}
  BY <1>6, <1>7, <1>11 DEF OpOk, OpFits, StepAlone
<1>14. OpFits(n) /\ n.kind = o.kind /\ n.back = h.back /\ n.landed = h.landed
  BY <1>7, <1>10, <1>11, <1>12 DEF GoesOn
<1>15. over => n.sent = {} /\ n.back = {}
  BY <1>13 DEF Flying
<1>. HIDE DEF fails, over
<1>16. /\ m.sent = n.sent /\ m.back = n.back /\ m.landed = n.landed /\ m.steps = n.steps /\ m.files = n.files
       /\ IsOp(m) /\ m.kind = IF over THEN "over" ELSE n.kind
  BY <1>4, <1>14 DEF OpFits, IsOp
<1>17. o.kind \in {"create", "delete", "moveCopy"} => over
  <2>1. SUFFICES ASSUME o.kind \in {"create", "delete", "moveCopy"}, ~fails PROVE Flying(n) = {}
    BY DEF over
  <2>2. o.steps = {} /\ o.files = {} /\ o.sent = {} /\ o.back = {b}
    BY <1>6, <2>1 DEF OpOk, OneCall
  <2>3. n.sent = {} /\ n.back = {}
    BY <1>7, <1>12, <2>1, <2>2 DEF GoesOn
  <2>. QED BY <2>3 DEF Flying
<1>18. OpOk(m)
  <2>1. Flying(m) = Flying(n)
    BY <1>16 DEF Flying
  <2>2. over => Flying(m) = {} /\ IsFiniteSet(Flying(m)) /\ Cardinality(Flying(m)) = 0
    BY <1>15, <2>1, FS_EmptySet DEF Flying
  <2>3. Cardinality(Flying(m)) <= Width(m) /\ IsFiniteSet(Flying(m))
    BY <1>14, <1>16, <2>1, <2>2 DEF OpFits, Width
  <2>4. OpFits(m)
    BY <1>14, <1>16, <2>3 DEF OpFits, StepAlone, OpKinds
  <2>5. o.kind = "files" => n.steps = {} /\ \A c \in Flying(n) : c.do = "put"
    <3>1. SUFFICES ASSUME o.kind = "files" PROVE n.steps = {} /\ \A c \in Flying(n) : c.do = "put"
      OBVIOUS
    <3>2. h.steps = {} /\ \A c \in Flying(h) : c.do = "put"
      BY <1>6, <1>7, <1>8, <3>1 DEF OpOk
    <3>. QED BY <1>11, <1>12, <3>2 DEF GoesOn
  <2>6. o.kind \notin {"none", "drop", "over"}
    BY <1>6 DEF OpOk
  <2>. QED BY <1>14, <1>15, <1>16, <1>17, <2>1, <2>4, <2>5, <2>6 DEF OpOk
<1>19. op' = [r \in Ops |-> op'[r]] /\ \A r \in Ops : op'[r] = IF r = q THEN m ELSE op[r]
  BY <1>5 DEF ExplorerInv
<1>20. \A r \in Ops : OpOk(op'[r])
  BY <1>18, <1>19 DEF ExplorerInv
<1>21. CASE over /\ ~fails /\ (o.kind = "files" => n.landed # {})
  BY <1>5, <1>19, <1>20, <1>21, LoadIsFresh DEF ExplorerInv
<1>22. CASE ~ (over /\ ~fails /\ (o.kind = "files" => n.landed # {}))
  <2>1. UNCHANGED <<loads, view, tree, cwd>>
    BY <1>5, <1>22
  <2>2. LoadsOk' /\ IsView(view)' /\ (Fresh => Fresh')
    BY <2>1 DEF ExplorerInv, LoadsOk, IsView, Fresh, Children
  <2>3. ASSUME Calm' PROVE ~HasChanged(o)
    <3>1. CASE ~over
      <4>1. ~HasChanged(m) /\ m.landed = h.landed /\ m.back = h.back
        BY <1>6, <1>14, <1>16, <1>19, <2>3, <3>1 DEF Calm, Under, OpOk
      <4>. QED BY <1>6, <1>7, <4>1 DEF HasChanged
    <3>2. CASE fails
      <4>1. o.kind \notin {"folder", "dirs"}
        BY <1>5, <2>3, <3>2 DEF Calm
      <4>2. b.call.do # "put" /\ ~b.ok
        BY <3>2 DEF fails
      <4>3. o.kind \in {"create", "delete", "moveCopy"}
        BY <1>6, <1>8, <4>1, <4>2 DEF OpOk, OpFits, OpKinds
      <4>. QED BY <1>6, <4>2, <4>3 DEF OpOk, OneCall, HasChanged
    <3>3. CASE over /\ ~fails
      <4>1. o.kind = "files" /\ n.landed = {}
        BY <1>22, <3>3
      <4>2. o.landed = {} /\ ~b.ok /\ o.back \ {b} = {}
        BY <1>7, <1>14, <1>15, <3>3, <4>1
      <4>. QED BY <4>2 DEF HasChanged
    <3>. QED BY <3>1, <3>2, <3>3
  <2>4. Calm' => Calm
    <3>1. SUFFICES ASSUME Calm' PROVE Calm
      OBVIOUS
    <3>2. ~unsure
      BY <1>5, <3>1 DEF Calm
    <3>3. ASSUME NEW r \in Ops, Under(r), r # q PROVE ~HasChanged(op[r])
      BY <1>19, <3>1, <3>3 DEF Calm, Under
    <3>. QED BY <1>1, <2>3, <3>1, <3>2, <3>3 DEF Calm
  <2>. QED BY <1>19, <1>20, <2>2, <2>4 DEF ExplorerInv
<1>. QED BY <1>21, <1>22

LEMMA ExplorerStart == ExplorerInit => ExplorerInv
<1>. SUFFICES ASSUME ExplorerInit PROVE ExplorerInv
  OBVIOUS
<1>1. OpOk(NotBegun)
  <2>1. IsFiniteSet({}) /\ Cardinality({}) = 0 /\ Flying(NotBegun) = {}
    BY FS_EmptySet DEF Flying, NotBegun
  <2>. QED BY <2>1 DEF OpOk, OpFits, IsOp, Width, StepAlone, OpKinds, NotBegun
<1>2. op = [q \in Ops |-> op[q]] /\ \A q \in Ops : OpOk(op[q])
  BY <1>1 DEF ExplorerInit
<1>3. PICK l : /\ l = [path |-> <<>>, answer |-> "none", names |-> {}, live |-> TRUE]
               /\ loads = <<l>>
  BY DEF ExplorerInit
<1>4. IsLoad(l) /\ l.path = <<>> /\ l.answer = "none"
  BY <1>3 DEF IsLoad
<1>5. loads \in Seq({l}) /\ \A i \in DOMAIN loads : loads[i] = l
  <2>1. <<l>> \in Seq({l}) /\ DOMAIN <<l>> = {1} /\ <<l>>[1] = l
    <3>1. DOMAIN <<l>> = 1..1 /\ <<l>>[1] = l
      OBVIOUS
    <3>2. \A j \in 1..1 : j = 1
      OBVIOUS
    <3>3. 1 \in 1..1
      OBVIOUS
    <3>4. 1..1 = {1}
      BY <3>2, <3>3, Zenon
    <3>5. <<l>> \in Seq({l})
      OBVIOUS
    <3>. QED BY <3>1, <3>4, <3>5, Zenon
  <2>2. loads = <<l>>
    BY <1>3, Zenon
  <2>. QED BY <2>1, <2>2, Zenon
<1>6. LoadsOk
  BY <1>4, <1>5 DEF LoadsOk, ExplorerInit
<1>7. IsView(view) /\ view.loading
  BY DEF ExplorerInit, IsView
<1>. QED BY <1>2, <1>4, <1>5, <1>6, <1>7 DEF ExplorerInv, Fresh

LEMMA ExplorerNextKeeps == ExplorerInv /\ [ExplorerNext]_explorerVars => ExplorerInv'
<1>1. ASSUME ExplorerInv, UNCHANGED explorerVars PROVE ExplorerInv'
  BY <1>1 DEF explorerVars, ExplorerInv, LoadsOk, Fresh, Calm, Under, Children
<1>. QED BY <1>1, PageSteps, OperationsBegin, CollectedKeeps, PerformKeeps, HearKeeps DEF ExplorerNext

(* Once nothing is under way the page shows what its directory holds, however *)
(* operations and lists overlap, for any number of them.                       *)
THEOREM ListsAreFresh == ExplorerSpec => []ListIsFresh
<1>1. ExplorerInv => ListIsFresh
  BY DEF ExplorerInv, ListIsFresh, Calm, Fresh
<1>. QED BY ExplorerStart, ExplorerNextKeeps, <1>1, PTL DEF ExplorerSpec
-----------------------------------------------------------------------------
(* The write tools.  The lemmas are about paths, then about trees, then about *)
(* the commands of a tool; McpInv is the inductive invariant.                  *)

(* Paths are sequences of names, and Below is the order of their beginnings. *)
McpPaths == Seq(EntryNames)

LEMMA BelowIs ==
  ASSUME NEW p \in McpPaths, NEW q \in McpPaths
  PROVE  Below(p, q) <=> Len(p) <= Len(q) /\ \A i \in 1 .. Len(p) : p[i] = q[i]
<1>1. Len(p) \in Nat /\ Len(q) \in Nat  BY DEF McpPaths
<1>2. SubSeq(p, 1, Len(p)) = p  BY SubSeqFull DEF McpPaths
<1>3. ASSUME Len(p) <= Len(q)
      PROVE  p = SubSeq(q, 1, Len(p)) <=> \A i \in 1 .. Len(p) : p[i] = q[i]
  <2> DEFINE s == SubSeq(q, 1, Len(p))
  <2>1. /\ s \in Seq(EntryNames) /\ Len(s) = Len(p)
        /\ \A i \in 1 .. Len(p) : s[i] = q[i]
    <3>1. \A i \in 1 .. Len(p) : q[i] \in EntryNames  BY <1>1, <1>3 DEF McpPaths
    <3>2. Len(s) = IF 1 <= Len(p) THEN Len(p) - 1 + 1 ELSE 0  BY <3>1, <1>1, SubSeqProperties
    <3>3. \A i \in 1 .. Len(p) - 1 + 1 : s[i] = q[1 + i - 1]  BY <3>1, <1>1, SubSeqProperties
    <3>4. s \in Seq(EntryNames)  BY <3>1, <1>1, SubSeqProperties
    <3> HIDE DEF s
    <3> QED  BY <3>2, <3>3, <3>4, <1>1
  <2> HIDE DEF s
  <2>2. (\A i \in 1 .. Len(p) : p[i] = q[i]) => p = s  BY <2>1, SeqEqual DEF McpPaths
  <2> QED  BY <2>1, <2>2 DEF s
<1> QED  BY <1>1, <1>2, <1>3 DEF Below, IsPrefix

(* The order of beginnings; the beginnings of one path are above one another. *)
LEMMA BelowOrder ==
  /\ \A p \in McpPaths : Below(p, p) /\ Below(<<>>, p)
  /\ \A p, q, r \in McpPaths : Below(p, q) /\ Below(q, r) => Below(p, r)
  /\ \A p, q \in McpPaths : Below(p, q) /\ Below(q, p) => p = q
  /\ \A p, q, r \in McpPaths : Below(p, r) /\ Below(q, r) => Below(p, q) \/ Below(q, p)
<1>1. \A p \in McpPaths : Len(p) \in Nat  BY DEF McpPaths
<1>2. <<>> \in McpPaths /\ Len(<<>>) = 0  BY EmptySeq DEF McpPaths
<1>3. ASSUME NEW p \in McpPaths  PROVE Below(p, p) /\ Below(<<>>, p)
  BY <1>1, <1>2, BelowIs
<1>4. ASSUME NEW p \in McpPaths, NEW q \in McpPaths, NEW r \in McpPaths, Below(p, q), Below(q, r)
      PROVE  Below(p, r)
  <2>1. Len(p) <= Len(q) /\ \A i \in 1 .. Len(p) : p[i] = q[i]  BY <1>4, BelowIs
  <2>2. Len(q) <= Len(r) /\ \A i \in 1 .. Len(q) : q[i] = r[i]  BY <1>4, BelowIs
  <2>3. Len(p) <= Len(r) /\ \A i \in 1 .. Len(p) : i \in 1 .. Len(q)  BY <1>1, <2>1, <2>2
  <2> QED  BY <2>1, <2>2, <2>3, BelowIs
<1>5. ASSUME NEW p \in McpPaths, NEW q \in McpPaths, Below(p, q), Below(q, p)  PROVE p = q
  <2>1. Len(p) <= Len(q) /\ \A i \in 1 .. Len(p) : p[i] = q[i]  BY <1>5, BelowIs
  <2>2. Len(q) <= Len(p)  BY <1>5, BelowIs
  <2>3. Len(p) = Len(q)  BY <1>1, <2>1, <2>2
  <2> QED  BY <2>1, <2>3, SeqEqual DEF McpPaths
<1>6. ASSUME NEW p \in McpPaths, NEW q \in McpPaths, NEW r \in McpPaths, Below(p, r), Below(q, r)
      PROVE  Below(p, q) \/ Below(q, p)
  <2>1. Len(p) <= Len(r) /\ \A i \in 1 .. Len(p) : p[i] = r[i]  BY <1>6, BelowIs
  <2>2. Len(q) <= Len(r) /\ \A i \in 1 .. Len(q) : q[i] = r[i]  BY <1>6, BelowIs
  <2>3. CASE Len(p) <= Len(q)
    <3>1. \A i \in 1 .. Len(p) : i \in 1 .. Len(q)  BY <1>1, <2>3
    <3> QED  BY <2>1, <2>2, <2>3, <3>1, BelowIs
  <2>4. CASE Len(q) <= Len(p)
    <3>1. \A i \in 1 .. Len(q) : i \in 1 .. Len(p)  BY <1>1, <2>4
    <3> QED  BY <2>1, <2>2, <2>4, <3>1, BelowIs
  <2> QED  BY <2>3, <2>4, <1>1
<1> QED  BY <1>3, <1>4, <1>5, <1>6

LEMMA Beginnings ==
  ASSUME NEW p \in McpPaths
  PROVE  /\ \A k \in 0 .. Len(p) :
              /\ SubSeq(p, 1, k) \in McpPaths /\ Below(SubSeq(p, 1, k), p)
              /\ k < Len(p) => SubSeq(p, 1, k) # p
         /\ \A q \in McpPaths : Below(q, p) =>
              /\ Len(q) \in 0 .. Len(p) /\ q = SubSeq(p, 1, Len(q))
              /\ q # p => Len(q) < Len(p)
<1>1. Len(p) \in Nat /\ \A i \in 1 .. Len(p) : p[i] \in EntryNames  BY DEF McpPaths
<1>2. ASSUME NEW k \in 0 .. Len(p)
      PROVE  /\ SubSeq(p, 1, k) \in McpPaths /\ Below(SubSeq(p, 1, k), p)
             /\ k < Len(p) => SubSeq(p, 1, k) # p
  <2> DEFINE s == SubSeq(p, 1, k)
  <2>1. s \in McpPaths /\ Len(s) = k /\ \A i \in 1 .. k : s[i] = p[i]
    <3>1. \A i \in 1 .. k : p[i] \in EntryNames  BY <1>1
    <3>2. Len(s) = IF 1 <= k THEN k - 1 + 1 ELSE 0  BY <3>1, <1>1, SubSeqProperties
    <3>3. \A i \in 1 .. k - 1 + 1 : s[i] = p[1 + i - 1]  BY <3>1, <1>1, SubSeqProperties
    <3>4. s \in Seq(EntryNames)  BY <3>1, <1>1, SubSeqProperties
    <3> HIDE DEF s
    <3> QED  BY <3>2, <3>3, <3>4, <1>1 DEF McpPaths
  <2> HIDE DEF s
  <2>2. Below(s, p)  BY <2>1, <1>1, BelowIs
  <2>3. k < Len(p) => s # p  BY <2>1, <1>1
  <2> QED  BY <2>1, <2>2, <2>3 DEF s
<1>3. ASSUME NEW q \in McpPaths, Below(q, p)
      PROVE  /\ Len(q) \in 0 .. Len(p) /\ q = SubSeq(p, 1, Len(q))
             /\ q # p => Len(q) < Len(p)
  <2>1. Len(q) \in Nat  BY DEF McpPaths
  <2>2. Len(q) <= Len(p) /\ \A i \in 1 .. Len(q) : q[i] = p[i]  BY <1>3, BelowIs
  <2>3. SubSeq(q, 1, Len(q)) = q  BY SubSeqFull DEF McpPaths
  <2>4. q = SubSeq(p, 1, Len(q))  BY <1>3, <2>3 DEF Below, IsPrefix
  <2>5. ASSUME Len(q) = Len(p)  PROVE q = p  BY <2>2, <2>5, SeqEqual DEF McpPaths
  <2>6. q # p => Len(q) # Len(p)  BY <2>5
  <2>7. Len(q) \in 0 .. Len(p)  BY <2>1, <2>2, <1>1
  <2> HIDE <1>3
  <2>8. Len(q) # Len(p) => Len(q) < Len(p)  BY <2>1, <2>2, <1>1
  <2> QED  BY <2>4, <2>6, <2>7, <2>8
<1> QED  BY <1>2, <1>3

(* A path below another is that one and a rest, and each rest makes one. *)
LEMMA JoinedPaths ==
  ASSUME NEW p \in McpPaths, NEW s \in McpPaths
  PROVE  p \o s \in McpPaths /\ Below(p, p \o s) /\ Drop(p \o s, Len(p)) = s
<1> DEFINE j == p \o s
<1>1. Len(p) \in Nat /\ Len(s) \in Nat  BY DEF McpPaths
<1>2. /\ j \in McpPaths /\ Len(j) = Len(p) + Len(s)
      /\ \A i \in 1 .. Len(p) + Len(s) : j[i] = IF i <= Len(p) THEN p[i] ELSE s[i - Len(p)]
  BY ConcatProperties DEF McpPaths
<1> HIDE DEF j
<1>3. Below(p, j)
  <2>1. Len(p) <= Len(j) /\ \A i \in 1 .. Len(p) : i \in 1 .. Len(p) + Len(s) /\ i <= Len(p)
    BY <1>1, <1>2
  <2>2. \A i \in 1 .. Len(p) : p[i] = j[i]  BY <1>2, <2>1
  <2> QED  BY <1>2, <2>1, <2>2, BelowIs
<1> DEFINE d == SubSeq(j, Len(p) + 1, Len(j))
<1>4. d \in McpPaths /\ Len(d) = Len(s) /\ \A i \in 1 .. Len(s) : d[i] = j[Len(p) + i]
  <2>1. \A i \in Len(p) + 1 .. Len(j) : j[i] \in EntryNames  BY <1>1, <1>2 DEF McpPaths
  <2>2. Len(p) + 1 \in Int /\ Len(j) \in Int  BY <1>1, <1>2
  <2>3. Len(d) = IF Len(p) + 1 <= Len(j) THEN Len(j) - (Len(p) + 1) + 1 ELSE 0
    BY <2>1, <2>2, SubSeqProperties
  <2>4. \A i \in 1 .. Len(j) - (Len(p) + 1) + 1 : d[i] = j[Len(p) + 1 + i - 1]
    BY <2>1, <2>2, SubSeqProperties
  <2>5. d \in McpPaths  BY <2>1, <2>2, SubSeqProperties DEF McpPaths
  <2> HIDE DEF d
  <2>6. Len(d) = Len(s)  BY <2>3, <1>1, <1>2
  <2>7. \A i \in 1 .. Len(s) : i \in 1 .. Len(j) - (Len(p) + 1) + 1 /\ Len(p) + 1 + i - 1 = Len(p) + i
    BY <1>1, <1>2
  <2> QED  BY <2>4, <2>5, <2>6, <2>7
<1> HIDE DEF d
<1>5. ASSUME NEW i \in 1 .. Len(s)  PROVE d[i] = s[i]
  <2>1. /\ Len(p) + i \in 1 .. Len(p) + Len(s)
        /\ ~ (Len(p) + i <= Len(p)) /\ Len(p) + i - Len(p) = i
    BY <1>1
  <2>2. j[Len(p) + i] = s[i]  BY <1>2, <2>1
  <2> QED  BY <1>4, <2>2
<1>6. d = s  BY <1>4, <1>5, SeqEqual DEF McpPaths
<1> QED  BY <1>2, <1>3, <1>6 DEF j, d, Drop

LEMMA DividedPaths ==
  ASSUME NEW p \in McpPaths, NEW q \in McpPaths, Below(p, q)
  PROVE  Drop(q, Len(p)) \in McpPaths /\ p \o Drop(q, Len(p)) = q
<1>1. Len(p) \in Nat /\ Len(q) \in Nat  BY DEF McpPaths
<1>2. p = SubSeq(q, 1, Len(p)) /\ Len(p) \in 0 .. Len(q)  BY Beginnings
<1>3. SubSeq(q, 1, Len(p)) \o SubSeq(q, Len(p) + 1, Len(q)) = SubSeq(q, 1, Len(q))
  <2>1. /\ 1 \in 1 .. Len(q) + 1 /\ Len(p) \in 1 - 1 .. Len(q) /\ Len(q) \in Len(p) .. Len(q)
    BY <1>1, <1>2
  <2> QED  BY <2>1, ConcatAdjacentSubSeq DEF McpPaths
<1>4. SubSeq(q, 1, Len(q)) = q  BY SubSeqFull DEF McpPaths
<1>5. Drop(q, Len(p)) \in McpPaths
  <2>1. \A i \in Len(p) + 1 .. Len(q) : q[i] \in EntryNames  BY <1>1 DEF McpPaths
  <2>2. Len(p) + 1 \in Int /\ Len(q) \in Int  BY <1>1
  <2> QED  BY <2>1, <2>2, SubSeqProperties DEF Drop, McpPaths
<1> QED  BY <1>2, <1>3, <1>4, <1>5 DEF Drop

LEMMA JoinedOrder ==
  ASSUME NEW p \in McpPaths, NEW r \in McpPaths, NEW s \in McpPaths
  PROVE  Below(p \o r, p \o s) <=> Below(r, s)
<1>1. Len(p) \in Nat /\ Len(r) \in Nat /\ Len(s) \in Nat  BY DEF McpPaths
<1> DEFINE a == p \o r  b == p \o s
<1>2. /\ a \in McpPaths /\ Len(a) = Len(p) + Len(r)
      /\ \A i \in 1 .. Len(p) + Len(r) : a[i] = IF i <= Len(p) THEN p[i] ELSE r[i - Len(p)]
  BY ConcatProperties DEF McpPaths
<1>3. /\ b \in McpPaths /\ Len(b) = Len(p) + Len(s)
      /\ \A i \in 1 .. Len(p) + Len(s) : b[i] = IF i <= Len(p) THEN p[i] ELSE s[i - Len(p)]
  BY ConcatProperties DEF McpPaths
<1> HIDE DEF a, b
<1>4. Below(a, b) <=> Len(a) <= Len(b) /\ \A i \in 1 .. Len(a) : a[i] = b[i]  BY <1>2, <1>3, BelowIs
<1>5. Below(r, s) <=> Len(r) <= Len(s) /\ \A i \in 1 .. Len(r) : r[i] = s[i]  BY BelowIs
<1>6. Len(a) <= Len(b) <=> Len(r) <= Len(s)  BY <1>1, <1>2, <1>3
<1>7. ASSUME Len(r) <= Len(s), \A i \in 1 .. Len(a) : a[i] = b[i], NEW i \in 1 .. Len(r)
      PROVE  r[i] = s[i]
  <2>1. /\ Len(p) + i \in 1 .. Len(p) + Len(r) /\ Len(p) + i \in 1 .. Len(p) + Len(s)
        /\ ~ (Len(p) + i <= Len(p)) /\ Len(p) + i - Len(p) = i
    BY <1>1, <1>7
  <2> QED  BY <1>2, <1>3, <1>7, <2>1
<1>8. ASSUME Len(r) <= Len(s), \A i \in 1 .. Len(r) : r[i] = s[i], NEW i \in 1 .. Len(a)
      PROVE  a[i] = b[i]
  <2>1. /\ i \in 1 .. Len(p) + Len(r) /\ i \in 1 .. Len(p) + Len(s)
        /\ ~ (i <= Len(p)) => i - Len(p) \in 1 .. Len(r)
    BY <1>1, <1>2, <1>8
  <2> QED  BY <1>2, <1>3, <1>8, <2>1
<1>9. Below(a, b) <=> Below(r, s)  BY <1>4, <1>5, <1>6, <1>7, <1>8
<1> QED  BY <1>9 DEF a, b

(* What the definitions of trees say, with no path cut into its beginnings *)
LEMMA TreeIs ==
  ASSUME NEW t
  PROVE  IsTree(t) <=>
           /\ DOMAIN t \subseteq McpPaths /\ <<>> \in DOMAIN t
           /\ \A p \in DOMAIN t :
                /\ t[p] \in McpFiles \union {Dict}
                /\ \A q \in McpPaths : Below(q, p) =>
                     q \in DOMAIN t /\ (q # p => t[q] = Dict)
<1>1. ASSUME NEW p \in McpPaths
      PROVE  (\A k \in 0 .. Len(p) :
                SubSeq(p, 1, k) \in DOMAIN t /\ (k < Len(p) => t[SubSeq(p, 1, k)] = Dict))
             <=> \A q \in McpPaths : Below(q, p) => q \in DOMAIN t /\ (q # p => t[q] = Dict)
  <2>1. ASSUME \A k \in 0 .. Len(p) :
                 SubSeq(p, 1, k) \in DOMAIN t /\ (k < Len(p) => t[SubSeq(p, 1, k)] = Dict),
               NEW q \in McpPaths, Below(q, p)
        PROVE  q \in DOMAIN t /\ (q # p => t[q] = Dict)
    <3>1. /\ Len(q) \in 0 .. Len(p) /\ q = SubSeq(p, 1, Len(q))
          /\ q # p => Len(q) < Len(p)
      BY <2>1, Beginnings
    <3> QED  BY <2>1, <3>1
  <2>2. ASSUME \A q \in McpPaths : Below(q, p) => q \in DOMAIN t /\ (q # p => t[q] = Dict),
               NEW k \in 0 .. Len(p)
        PROVE  SubSeq(p, 1, k) \in DOMAIN t /\ (k < Len(p) => t[SubSeq(p, 1, k)] = Dict)
    <3>1. /\ SubSeq(p, 1, k) \in McpPaths /\ Below(SubSeq(p, 1, k), p)
          /\ k < Len(p) => SubSeq(p, 1, k) # p
      BY <2>2, Beginnings
    <3> QED  BY <2>2, <3>1
  <2> QED  BY <2>1, <2>2
<1>2. DOMAIN t \subseteq McpPaths =>
        (IsTree(t) <=>
           /\ DOMAIN t \subseteq McpPaths /\ <<>> \in DOMAIN t
           /\ \A p \in DOMAIN t :
                /\ t[p] \in McpFiles \union {Dict}
                /\ \A q \in McpPaths : Below(q, p) =>
                     q \in DOMAIN t /\ (q # p => t[q] = Dict))
  BY <1>1, Zenon DEF IsTree, McpPaths
<1>3. IsTree(t) => DOMAIN t \subseteq McpPaths  BY DEF IsTree, McpPaths
<1> QED  BY <1>2, <1>3, Zenon

LEMMA BlockedIs ==
  ASSUME NEW t, NEW p \in McpPaths
  PROVE  Blocked(t, p) <=>
           \E q \in McpPaths : Below(q, p) /\ q # p /\ q \in DOMAIN t /\ t[q] # Dict
<1>1. Len(p) \in Nat  BY DEF McpPaths
<1>2. ASSUME Blocked(t, p)
      PROVE  \E q \in McpPaths : Below(q, p) /\ q # p /\ q \in DOMAIN t /\ t[q] # Dict
  <2>1. PICK k \in 0 .. Len(p) - 1 : SubSeq(p, 1, k) \in DOMAIN t /\ t[SubSeq(p, 1, k)] # Dict
    BY <1>2 DEF Blocked
  <2>2. k \in 0 .. Len(p) /\ k < Len(p)  BY <1>1
  <2>3. SubSeq(p, 1, k) \in McpPaths /\ Below(SubSeq(p, 1, k), p) /\ SubSeq(p, 1, k) # p
    BY <2>2, Beginnings
  <2> QED  BY <2>1, <2>3
<1>3. ASSUME NEW q \in McpPaths, Below(q, p), q # p, q \in DOMAIN t, t[q] # Dict
      PROVE  Blocked(t, p)
  <2>1. Len(q) \in 0 .. Len(p) /\ q = SubSeq(p, 1, Len(q)) /\ Len(q) < Len(p)
    BY <1>3, Beginnings
  <2>2. Len(q) \in 0 .. Len(p) - 1  BY <1>1, <2>1
  <2> QED  BY <1>3, <2>1, <2>2 DEF Blocked
<1> QED  BY <1>2, <1>3

(* The paths of a graft: those of the tree that the place leaves, those above *)
(* the place, and below it those of the node.                                 *)
NewAt(p, n, q) == Below(p, q) /\ Drop(q, Len(p)) \in DOMAIN n
Over(q, p) == Below(q, p) /\ q # p

LEMMA GraftIs ==
  ASSUME NEW t, NEW p \in McpPaths, NEW n, DOMAIN t \subseteq McpPaths, DOMAIN n \subseteq McpPaths
  PROVE  /\ DOMAIN Graft(t, p, n) \subseteq McpPaths
         /\ \A q \in McpPaths :
              q \in DOMAIN Graft(t, p, n) <=>
                (q \in DOMAIN t /\ ~ Below(p, q)) \/ Over(q, p) \/ NewAt(p, n, q)
         /\ \A q \in DOMAIN Graft(t, p, n) :
              Graft(t, p, n)[q] = IF NewAt(p, n, q) THEN n[Drop(q, Len(p))]
                                  ELSE IF q \in DOMAIN t THEN t[q] ELSE Dict
<1> DEFINE stay == {q \in DOMAIN t : ~Below(p, q)}
           ups == {SubSeq(p, 1, k) : k \in 0 .. Len(p) - 1}
           new == {p \o s : s \in DOMAIN n}
<1>1. Len(p) \in Nat  BY DEF McpPaths
<1>2. ASSUME NEW q  PROVE q \in ups <=> q \in McpPaths /\ Over(q, p)
  <2>1. ASSUME q \in ups  PROVE q \in McpPaths /\ Over(q, p)
    <3>1. PICK k \in 0 .. Len(p) - 1 : q = SubSeq(p, 1, k)  BY <2>1
    <3>2. k \in 0 .. Len(p) /\ k < Len(p)  BY <1>1
    <3> QED  BY <3>1, <3>2, Beginnings DEF Over
  <2>2. ASSUME q \in McpPaths, Over(q, p)  PROVE q \in ups
    <3>1. Len(q) \in 0 .. Len(p) /\ q = SubSeq(p, 1, Len(q)) /\ Len(q) < Len(p)
      BY <2>2, Beginnings DEF Over
    <3>2. Len(q) \in 0 .. Len(p) - 1  BY <1>1, <3>1
    <3> QED  BY <3>1, <3>2
  <2> QED  BY <2>1, <2>2
<1>3. ASSUME NEW q  PROVE q \in new <=> q \in McpPaths /\ NewAt(p, n, q)
  <2>1. ASSUME q \in new  PROVE q \in McpPaths /\ NewAt(p, n, q)
    <3>1. PICK s \in DOMAIN n : q = p \o s  BY <2>1
    <3> QED  BY <3>1, JoinedPaths DEF NewAt
  <2>2. ASSUME q \in McpPaths, NewAt(p, n, q)  PROVE q \in new
    BY <2>2, DividedPaths DEF NewAt
  <2> QED  BY <2>1, <2>2
<1>4. ASSUME NEW q  PROVE q \in stay <=> q \in McpPaths /\ q \in DOMAIN t /\ ~ Below(p, q)
  OBVIOUS
<1>5. Graft(t, p, n) = [q \in (stay \union ups) \union new |->
         IF q \in new THEN n[Drop(q, Len(p))] ELSE IF q \in DOMAIN t THEN t[q] ELSE Dict]
  BY DEF Graft
<1> HIDE DEF stay, ups, new
<1>6. \A q : q \in DOMAIN Graft(t, p, n) <=> q \in stay \/ q \in ups \/ q \in new  BY <1>5
<1>7. \A q \in DOMAIN Graft(t, p, n) :
        Graft(t, p, n)[q] = IF q \in new THEN n[Drop(q, Len(p))]
                            ELSE IF q \in DOMAIN t THEN t[q] ELSE Dict
  BY <1>5
<1>8. DOMAIN Graft(t, p, n) \subseteq McpPaths  BY <1>2, <1>3, <1>4, <1>6
<1> HIDE DEF Graft
<1>9. \A q \in McpPaths :
        q \in DOMAIN Graft(t, p, n) <=>
          (q \in DOMAIN t /\ ~ Below(p, q)) \/ Over(q, p) \/ NewAt(p, n, q)
  BY <1>2, <1>3, <1>4, <1>6, Zenon
<1>10. \A q \in DOMAIN Graft(t, p, n) :
         Graft(t, p, n)[q] = IF NewAt(p, n, q) THEN n[Drop(q, Len(p))]
                             ELSE IF q \in DOMAIN t THEN t[q] ELSE Dict
  <2>1. \A q \in DOMAIN Graft(t, p, n) : q \in new <=> NewAt(p, n, q)  BY <1>3, <1>8
  <2> QED  BY <1>7, <2>1
<1> QED  BY <1>8, <1>9, <1>10

(* What the operations on trees make of trees are trees. *)
LEMMA GraftTree ==
  ASSUME NEW t, NEW n, NEW p \in McpPaths, IsTree(t), IsTree(n), ~ Blocked(t, p)
  PROVE  IsTree(Graft(t, p, n))
<1> DEFINE g == Graft(t, p, n)
<1>1. /\ DOMAIN t \subseteq McpPaths /\ <<>> \in DOMAIN t
      /\ \A x \in DOMAIN t :
           /\ t[x] \in McpFiles \union {Dict}
           /\ \A q \in McpPaths : Below(q, x) => q \in DOMAIN t /\ (q # x => t[q] = Dict)
  BY TreeIs
<1>2. /\ DOMAIN n \subseteq McpPaths /\ <<>> \in DOMAIN n
      /\ \A x \in DOMAIN n :
           /\ n[x] \in McpFiles \union {Dict}
           /\ \A q \in McpPaths : Below(q, x) => q \in DOMAIN n /\ (q # x => n[q] = Dict)
  BY TreeIs
<1>3. \A q \in McpPaths : Over(q, p) /\ q \in DOMAIN t => t[q] = Dict
  BY BlockedIs DEF Over
<1>4. /\ DOMAIN g \subseteq McpPaths
      /\ \A q \in McpPaths :
           q \in DOMAIN g <=> (q \in DOMAIN t /\ ~ Below(p, q)) \/ Over(q, p) \/ NewAt(p, n, q)
      /\ \A q \in DOMAIN g :
           g[q] = IF NewAt(p, n, q) THEN n[Drop(q, Len(p))] ELSE IF q \in DOMAIN t THEN t[q] ELSE Dict
  BY <1>1, <1>2, GraftIs
<1> HIDE DEF g
<1>5. <<>> \in DOMAIN g
  <2>1. <<>> \in McpPaths /\ Below(<<>>, p)  BY BelowOrder, EmptySeq DEF McpPaths
  <2>2. CASE p = <<>>
    <3>1. Below(p, p) /\ Drop(p, Len(p)) = <<>>
      <4>1. p \o <<>> = p  BY <2>1, <2>2, ConcatEmptySeq DEF McpPaths
      <4> QED  BY <2>1, <4>1, JoinedPaths
    <3> QED  BY <1>2, <1>4, <2>1, <2>2, <3>1 DEF NewAt
  <2>3. CASE p # <<>>  BY <1>4, <2>1, <2>3 DEF Over
  <2> QED  BY <2>2, <2>3
<1>6. ASSUME NEW x \in DOMAIN g  PROVE g[x] \in McpFiles \union {Dict}
  BY <1>1, <1>2, <1>4 DEF NewAt
<1>7. ASSUME NEW x \in DOMAIN g, NEW q \in McpPaths, Below(q, x)
      PROVE  q \in DOMAIN g /\ (q # x => g[q] = Dict)
  <2>0. x \in McpPaths  BY <1>4
  <2>1. CASE NewAt(p, n, x)
    <3>1. Below(p, q) \/ Below(q, p)  BY <1>7, <2>0, <2>1, BelowOrder DEF NewAt
    <3>2. CASE Below(p, q)
      <4> DEFINE s == Drop(q, Len(p))  y == Drop(x, Len(p))
      <4>1. s \in McpPaths /\ y \in McpPaths /\ p \o s = q /\ p \o y = x
        BY <2>0, <2>1, <3>2, DividedPaths DEF NewAt
      <4> HIDE DEF s, y
      <4>2. Below(s, y)  BY <1>7, <4>1, JoinedOrder
      <4>3. y \in DOMAIN n  BY <2>1 DEF NewAt, y
      <4>4. s \in DOMAIN n /\ (s # y => n[s] = Dict)  BY <1>2, <4>1, <4>2, <4>3
      <4>5. NewAt(p, n, q)  BY <3>2, <4>4 DEF NewAt, s
      <4>6. q \in DOMAIN g /\ g[q] = n[s]  BY <1>4, <4>5 DEF s
      <4>7. q # x => s # y  BY <4>1
      <4> QED  BY <4>4, <4>6, <4>7
    <3>3. CASE ~ Below(p, q)
      <4>1. Over(q, p)  BY <3>1, <3>3, BelowOrder DEF Over
      <4>2. ~ NewAt(p, n, q)  BY <3>3 DEF NewAt
      <4> QED  BY <1>3, <1>4, <4>1, <4>2
    <3> QED  BY <3>2, <3>3
  <2>2. CASE Over(x, p)
    <3>1. Below(q, p)  BY <1>7, <2>0, <2>2, BelowOrder DEF Over
    <3>2. q # p  BY <1>7, <2>0, <2>2, BelowOrder DEF Over
    <3>3. Over(q, p)  BY <3>1, <3>2 DEF Over
    <3>4. ~ Below(p, q)  BY <3>1, <3>2, BelowOrder
    <3>5. ~ NewAt(p, n, q)  BY <3>4 DEF NewAt
    <3> QED  BY <1>3, <1>4, <3>3, <3>5
  <2>3. CASE x \in DOMAIN t /\ ~ Below(p, x)
    <3>1. ~ Below(p, q)  BY <1>7, <2>0, <2>3, BelowOrder
    <3>2. ~ NewAt(p, n, q)  BY <3>1 DEF NewAt
    <3>3. q \in DOMAIN t /\ (q # x => t[q] = Dict)  BY <1>1, <1>7, <2>3
    <3> QED  BY <1>4, <3>1, <3>2, <3>3
  <2> QED  BY <1>4, <2>0, <2>1, <2>2, <2>3
<1>8. IsTree(g)  BY <1>4, <1>5, <1>6, <1>7, TreeIs
<1> QED  BY <1>8 DEF g

LEMMA CutTree ==
  ASSUME NEW t, NEW p \in McpPaths, IsTree(t), p # <<>>
  PROVE  IsTree(Cut(t, p))
<1>1. /\ DOMAIN t \subseteq McpPaths /\ <<>> \in DOMAIN t
      /\ \A x \in DOMAIN t :
           /\ t[x] \in McpFiles \union {Dict}
           /\ \A q \in McpPaths : Below(q, x) => q \in DOMAIN t /\ (q # x => t[q] = Dict)
  BY TreeIs
<1> DEFINE c == Cut(t, p)
<1>2. /\ DOMAIN c = {x \in DOMAIN t : ~ Below(p, x)}
      /\ \A x \in DOMAIN c : c[x] = t[x]
  BY DEF Cut
<1> HIDE DEF c
<1>3. <<>> \in DOMAIN c  BY <1>1, <1>2, BelowOrder
<1>4. ASSUME NEW x \in DOMAIN c, NEW q \in McpPaths, Below(q, x)
      PROVE  q \in DOMAIN c /\ (q # x => c[q] = Dict)
  <2>1. x \in McpPaths /\ ~ Below(p, x) /\ x \in DOMAIN t  BY <1>1, <1>2
  <2>2. ~ Below(p, q)  BY <1>4, <2>1, BelowOrder
  <2> QED  BY <1>1, <1>2, <1>4, <2>1, <2>2
<1>5. \A x \in DOMAIN c : c[x] \in McpFiles \union {Dict}  BY <1>1, <1>2
<1>6. DOMAIN c \subseteq McpPaths  BY <1>1, <1>2
<1>7. IsTree(c)  BY <1>3, <1>4, <1>5, <1>6, TreeIs
<1> QED  BY <1>7 DEF c

LEMMA SubtreeIs ==
  ASSUME NEW t, NEW p \in McpPaths, DOMAIN t \subseteq McpPaths
  PROVE  /\ DOMAIN Subtree(t, p) \subseteq McpPaths
         /\ \A s \in McpPaths : s \in DOMAIN Subtree(t, p) <=> p \o s \in DOMAIN t
         /\ \A s \in DOMAIN Subtree(t, p) : Subtree(t, p)[s] = t[p \o s]
         /\ Subtree(t, p) = [s \in DOMAIN Subtree(t, p) |-> Subtree(t, p)[s]]
<1> DEFINE D == {Drop(q, Len(p)) : q \in {x \in DOMAIN t : Below(p, x)}}
<1>1. Subtree(t, p) = [s \in D |-> t[p \o s]]  BY DEF Subtree
<1>2. ASSUME NEW s \in D  PROVE s \in McpPaths /\ p \o s \in DOMAIN t
  <2>1. PICK q \in DOMAIN t : Below(p, q) /\ s = Drop(q, Len(p))  OBVIOUS
  <2> QED  BY <2>1, DividedPaths
<1>3. ASSUME NEW s \in McpPaths, p \o s \in DOMAIN t  PROVE s \in D
  BY <1>3, JoinedPaths
<1> HIDE DEF D
<1> QED  BY <1>1, <1>2, <1>3

LEMMA SubtreeTree ==
  ASSUME NEW t, NEW p \in DOMAIN t, IsTree(t)
  PROVE  p \in McpPaths /\ IsTree(Subtree(t, p))
<1>1. /\ DOMAIN t \subseteq McpPaths /\ <<>> \in DOMAIN t
      /\ \A x \in DOMAIN t :
           /\ t[x] \in McpFiles \union {Dict}
           /\ \A q \in McpPaths : Below(q, x) => q \in DOMAIN t /\ (q # x => t[q] = Dict)
  BY TreeIs
<1>2. p \in McpPaths  BY <1>1
<1> DEFINE c == Subtree(t, p)
<1>3. /\ DOMAIN c \subseteq McpPaths
      /\ \A s \in McpPaths : s \in DOMAIN c <=> p \o s \in DOMAIN t
      /\ \A s \in DOMAIN c : c[s] = t[p \o s]
  BY <1>1, <1>2, SubtreeIs
<1> HIDE DEF c
<1>4. <<>> \in DOMAIN c
  <2>1. p \o <<>> = p /\ <<>> \in McpPaths  BY <1>2, ConcatEmptySeq, EmptySeq DEF McpPaths
  <2> QED  BY <1>3, <2>1
<1>5. ASSUME NEW x \in DOMAIN c, NEW q \in McpPaths, Below(q, x)
      PROVE  q \in DOMAIN c /\ (q # x => c[q] = Dict)
  <2>1. x \in McpPaths /\ p \o x \in DOMAIN t  BY <1>3
  <2>2. Below(p \o q, p \o x)  BY <1>2, <1>5, <2>1, JoinedOrder
  <2>3. p \o q \in McpPaths  BY <1>2, JoinedPaths
  <2>4. q # x => p \o q # p \o x  BY <1>2, <2>1, JoinedPaths
  <2>5. p \o q \in DOMAIN t /\ (p \o q # p \o x => t[p \o q] = Dict)
    BY <1>1, <2>1, <2>2, <2>3
  <2> QED  BY <1>3, <2>4, <2>5
<1>6. \A x \in DOMAIN c : c[x] \in McpFiles \union {Dict}  BY <1>1, <1>3
<1>7. IsTree(c)  BY <1>3, <1>4, <1>5, <1>6, TreeIs
<1> QED  BY <1>2, <1>7 DEF c

LEMMA SubtreeContents ==
  ASSUME NEW t, NEW p \in McpPaths, DOMAIN t \subseteq McpPaths,
         NEW x \in DOMAIN t, t[x] # Dict, Below(p, x)
  PROVE  t[x] \in ContentsOf(Subtree(t, p))
<1>1. PICK s \in McpPaths : p \o s = x  BY DividedPaths
<1> DEFINE c == Subtree(t, p)
<1>2. /\ \A r \in McpPaths : r \in DOMAIN c <=> p \o r \in DOMAIN t
      /\ \A r \in DOMAIN c : c[r] = t[p \o r]
  BY SubtreeIs
<1> HIDE DEF c
<1>3. s \in DOMAIN c /\ c[s] = t[x]  BY <1>1, <1>2
<1>4. t[x] \in ContentsOf(c)  BY <1>3 DEF ContentsOf
<1> QED  BY <1>4 DEF c

(* Below a path that a tree does not have there is nothing. *)
LEMMA SubtreeOfNothing ==
  ASSUME NEW t, NEW p \in McpPaths, IsTree(t), p \notin DOMAIN t
  PROVE  ContentsOf(Subtree(t, p)) = {}
<1> SUFFICES ASSUME NEW f \in ContentsOf(Subtree(t, p))  PROVE FALSE
  OBVIOUS
<1>1. DOMAIN t \subseteq McpPaths  BY TreeIs
<1>2. PICK s \in DOMAIN Subtree(t, p) : f = Subtree(t, p)[s]  BY DEF ContentsOf
<1>3. s \in McpPaths /\ p \o s \in DOMAIN t  BY <1>1, <1>2, SubtreeIs
<1>4. Below(p, p \o s)  BY <1>3, JoinedPaths
<1>5. p \in DOMAIN t  BY <1>3, <1>4, TreeIs
<1> QED  BY <1>5

(* What a cut or a graft takes out of a tree was below the place. *)
LEMMA CutContents ==
  ASSUME NEW t, NEW p \in McpPaths, DOMAIN t \subseteq McpPaths, NEW f \in ContentsOf(t)
  PROVE  f \in ContentsOf(Cut(t, p)) \/ f \in ContentsOf(Subtree(t, p))
<1>1. PICK x \in DOMAIN t : t[x] = f /\ f # Dict  BY DEF ContentsOf
<1>2. CASE Below(p, x)  BY <1>1, <1>2, SubtreeContents
<1>3. CASE ~ Below(p, x)
  <2>1. x \in DOMAIN Cut(t, p) /\ Cut(t, p)[x] = f  BY <1>1, <1>3 DEF Cut
  <2> QED  BY <1>1, <2>1 DEF ContentsOf
<1> QED  BY <1>2, <1>3

LEMMA CutSubtree ==
  ASSUME NEW t, NEW p \in McpPaths, NEW q \in McpPaths, DOMAIN t \subseteq McpPaths
  PROVE  ContentsOf(Subtree(Cut(t, p), q)) \subseteq ContentsOf(Subtree(t, q))
<1> DEFINE c == Cut(t, p)
<1>1. DOMAIN c \subseteq DOMAIN t /\ \A x \in DOMAIN c : c[x] = t[x]  BY DEF Cut
<1> HIDE DEF c
<1>2. DOMAIN c \subseteq McpPaths  BY <1>1
<1> SUFFICES ASSUME NEW f \in ContentsOf(Subtree(c, q))  PROVE f \in ContentsOf(Subtree(t, q))
  BY DEF c
<1>3. PICK s \in DOMAIN Subtree(c, q) : f = Subtree(c, q)[s] /\ f # Dict  BY DEF ContentsOf
<1>4. s \in McpPaths /\ q \o s \in DOMAIN c /\ f = c[q \o s]  BY <1>2, <1>3, SubtreeIs
<1>5. s \in DOMAIN Subtree(t, q) /\ Subtree(t, q)[s] = f  BY <1>1, <1>4, SubtreeIs
<1> QED  BY <1>3, <1>5 DEF ContentsOf

LEMMA GraftContents ==
  ASSUME NEW t, NEW p \in McpPaths, NEW n, DOMAIN t \subseteq McpPaths, DOMAIN n \subseteq McpPaths
  PROVE  /\ \A f \in ContentsOf(t) :
              f \in ContentsOf(Graft(t, p, n)) \/ f \in ContentsOf(Subtree(t, p))
         /\ ContentsOf(n) \subseteq ContentsOf(Graft(t, p, n))
<1> DEFINE g == Graft(t, p, n)
<1>1. /\ \A q \in McpPaths :
           q \in DOMAIN g <=> (q \in DOMAIN t /\ ~ Below(p, q)) \/ Over(q, p) \/ NewAt(p, n, q)
      /\ \A q \in DOMAIN g :
           g[q] = IF NewAt(p, n, q) THEN n[Drop(q, Len(p))] ELSE IF q \in DOMAIN t THEN t[q] ELSE Dict
  BY GraftIs
<1> HIDE DEF g
<1>2. ASSUME NEW f \in ContentsOf(t)  PROVE f \in ContentsOf(g) \/ f \in ContentsOf(Subtree(t, p))
  <2>1. PICK x \in DOMAIN t : t[x] = f /\ f # Dict  BY <1>2 DEF ContentsOf
  <2>2. CASE Below(p, x)  BY <2>1, <2>2, SubtreeContents
  <2>3. CASE ~ Below(p, x)
    <3>1. x \in DOMAIN g /\ g[x] = f  BY <1>1, <2>1, <2>3 DEF NewAt
    <3> QED  BY <2>1, <3>1 DEF ContentsOf
  <2> QED  BY <2>2, <2>3
<1>3. ASSUME NEW f \in ContentsOf(n)  PROVE f \in ContentsOf(g)
  <2>1. PICK s \in DOMAIN n : n[s] = f /\ f # Dict  BY <1>3 DEF ContentsOf
  <2>2. p \o s \in McpPaths /\ NewAt(p, n, p \o s) /\ Drop(p \o s, Len(p)) = s
    BY <2>1, JoinedPaths DEF NewAt
  <2>3. p \o s \in DOMAIN g /\ g[p \o s] = f  BY <1>1, <2>1, <2>2
  <2> QED  BY <2>1, <2>3 DEF ContentsOf
<1> QED  BY <1>2, <1>3 DEF g

(* A graft puts the node at the place and leaves what is apart from it. *)
Function(n) == n = [s \in DOMAIN n |-> n[s]]

LEMMA GraftThere ==
  ASSUME NEW t, NEW p \in McpPaths, NEW n, DOMAIN t \subseteq McpPaths, DOMAIN n \subseteq McpPaths,
         Function(n)
  PROVE  Subtree(Graft(t, p, n), p) = n
<1> DEFINE g == Graft(t, p, n)  c == Subtree(g, p)
<1>1. /\ DOMAIN g \subseteq McpPaths
      /\ \A q \in McpPaths :
           q \in DOMAIN g <=> (q \in DOMAIN t /\ ~ Below(p, q)) \/ Over(q, p) \/ NewAt(p, n, q)
      /\ \A q \in DOMAIN g :
           g[q] = IF NewAt(p, n, q) THEN n[Drop(q, Len(p))] ELSE IF q \in DOMAIN t THEN t[q] ELSE Dict
  BY GraftIs
<1> HIDE DEF g
<1>2. /\ DOMAIN c \subseteq McpPaths
      /\ \A s \in McpPaths : s \in DOMAIN c <=> p \o s \in DOMAIN g
      /\ \A s \in DOMAIN c : c[s] = g[p \o s]
      /\ c = [s \in DOMAIN c |-> c[s]]
  BY <1>1, SubtreeIs
<1> HIDE DEF c
<1>3. ASSUME NEW s \in McpPaths  PROVE (p \o s \in DOMAIN g <=> s \in DOMAIN n)
                                       /\ (s \in DOMAIN n => g[p \o s] = n[s])
  <2>1. p \o s \in McpPaths /\ Below(p, p \o s) /\ Drop(p \o s, Len(p)) = s  BY JoinedPaths
  <2>2. NewAt(p, n, p \o s) <=> s \in DOMAIN n  BY <2>1 DEF NewAt
  <2>3. ~ Over(p \o s, p)  BY <2>1, BelowOrder DEF Over
  <2> QED  BY <1>1, <2>1, <2>2, <2>3
<1>4. DOMAIN c = DOMAIN n  BY <1>2, <1>3
<1>5. \A s \in DOMAIN n : c[s] = n[s]  BY <1>2, <1>3, <1>4
<1>6. c = n  BY <1>2, <1>4, <1>5 DEF Function
<1> QED  BY <1>6 DEF c, g

LEMMA GraftElsewhere ==
  ASSUME NEW t, NEW p \in McpPaths, NEW n, NEW o \in McpPaths,
         DOMAIN t \subseteq McpPaths, DOMAIN n \subseteq McpPaths,
         ~ Below(p, o), ~ Below(o, p)
  PROVE  Subtree(Graft(t, p, n), o) = Subtree(t, o)
<1> DEFINE g == Graft(t, p, n)  c == Subtree(g, o)  d == Subtree(t, o)
<1>1. /\ DOMAIN g \subseteq McpPaths
      /\ \A q \in McpPaths :
           q \in DOMAIN g <=> (q \in DOMAIN t /\ ~ Below(p, q)) \/ Over(q, p) \/ NewAt(p, n, q)
      /\ \A q \in DOMAIN g :
           g[q] = IF NewAt(p, n, q) THEN n[Drop(q, Len(p))] ELSE IF q \in DOMAIN t THEN t[q] ELSE Dict
  BY GraftIs
<1> HIDE DEF g
<1>2. /\ DOMAIN c \subseteq McpPaths
      /\ \A s \in McpPaths : s \in DOMAIN c <=> o \o s \in DOMAIN g
      /\ \A s \in DOMAIN c : c[s] = g[o \o s]
      /\ c = [s \in DOMAIN c |-> c[s]]
  BY <1>1, SubtreeIs
<1>3. /\ DOMAIN d \subseteq McpPaths
      /\ \A s \in McpPaths : s \in DOMAIN d <=> o \o s \in DOMAIN t
      /\ \A s \in DOMAIN d : d[s] = t[o \o s]
      /\ d = [s \in DOMAIN d |-> d[s]]
  BY SubtreeIs
<1> HIDE DEF c, d
<1>4. ASSUME NEW s \in McpPaths  PROVE (o \o s \in DOMAIN g <=> o \o s \in DOMAIN t)
                                       /\ (o \o s \in DOMAIN t => g[o \o s] = t[o \o s])
  <2>1. o \o s \in McpPaths /\ Below(o, o \o s)  BY JoinedPaths
  <2>2. ~ Below(p, o \o s)  BY <2>1, BelowOrder
  <2>3. ~ Over(o \o s, p)  BY <2>1, BelowOrder DEF Over
  <2> QED  BY <1>1, <2>1, <2>2, <2>3 DEF NewAt
<1>5. DOMAIN c = DOMAIN d  BY <1>2, <1>3, <1>4
<1>6. \A s \in DOMAIN d : c[s] = d[s]  BY <1>2, <1>3, <1>4, <1>5
<1>7. c = d  BY <1>2, <1>3, <1>5, <1>6
<1> QED  BY <1>7 DEF c, d, g

(* What a command hands on: the tree is a tree, and each file of F is in it or *)
(* below a node that was noted.                                                *)
IsWork(w) == w = [tree |-> w.tree, tombs |-> w.tombs, silent |-> w.silent, failed |-> w.failed]
NotedIn(f, nodes) == \E x \in nodes : f \in ContentsOf(x.node)
Keeps(w, F) == \A f \in F : f \in ContentsOf(w.tree) \/ NotedIn(f, w.tombs) \/ NotedIn(f, w.silent)
GoodWork(w, F) == ~ w.failed => IsTree(w.tree) /\ Keeps(w, F)

LEMMA AddedIs ==
  ASSUME NEW w, NEW to \in McpPaths, NEW node, IsWork(w), ~ w.failed, IsTree(w.tree), IsTree(node)
  PROVE  LET r == Added(w, to, node)
         IN  /\ IsWork(r) /\ r.tombs = w.tombs /\ r.silent = w.silent
             /\ ~ r.failed => IsTree(r.tree) /\ r.tree = Graft(w.tree, to, node)
<1>1. CASE Blocked(w.tree, to)  BY <1>1 DEF Added, IsWork
<1>2. CASE ~ Blocked(w.tree, to)
  <2>1. IsTree(Graft(w.tree, to, node))  BY <1>2, GraftTree
  <2>2. LET r == Added(w, to, node)
        IN  /\ IsWork(r) /\ r.tombs = w.tombs /\ r.silent = w.silent
            /\ r.tree = Graft(w.tree, to, node)
    BY <1>2 DEF Added, IsWork
  <2> QED  BY <2>1, <2>2
<1> QED  BY <1>1, <1>2

LEMMA PutKeeps ==
  ASSUME NEW w, NEW p \in McpPaths, NEW n, NEW F, IsWork(w), ~ w.failed, IsTree(w.tree), IsTree(n),
         Keeps(w, F)
  PROVE  GoodWork(PutAt(w, p, n), F)
<1> DEFINE r == PutAt(w, p, n)
<1>1. CASE Blocked(w.tree, p)
  <2>1. r.failed  BY <1>1 DEF PutAt, IsWork
  <2> QED  BY <2>1 DEF GoodWork
<1>2. CASE ~ Blocked(w.tree, p)
  <2>1. IsTree(Graft(w.tree, p, n))  BY <1>2, GraftTree
  <2>2. /\ r.tree = Graft(w.tree, p, n) /\ r.tombs = w.tombs /\ w.silent \subseteq r.silent
        /\ p \in DOMAIN w.tree => Tombstone(w, p) \in r.silent
    BY <1>2 DEF PutAt, IsWork
  <2>3. Tombstone(w, p).node = Subtree(w.tree, p)  BY DEF Tombstone
  <2> HIDE DEF r
  <2>4. DOMAIN w.tree \subseteq McpPaths /\ DOMAIN n \subseteq McpPaths  BY TreeIs
  <2>5. ASSUME NEW f \in ContentsOf(w.tree)
        PROVE  f \in ContentsOf(r.tree) \/ NotedIn(f, r.silent)
    <3>1. f \in ContentsOf(r.tree) \/ f \in ContentsOf(Subtree(w.tree, p))
      BY <2>2, <2>4, GraftContents
    <3>2. ASSUME p \notin DOMAIN w.tree  PROVE f \notin ContentsOf(Subtree(w.tree, p))
      BY <3>2, SubtreeOfNothing
    <3> QED  BY <2>2, <2>3, <3>1, <3>2 DEF NotedIn
  <2>6. Keeps(r, F)
    <3> SUFFICES ASSUME NEW f \in F
                 PROVE  f \in ContentsOf(r.tree) \/ NotedIn(f, r.tombs) \/ NotedIn(f, r.silent)
      BY DEF Keeps
    <3>1. f \in ContentsOf(w.tree) \/ NotedIn(f, w.tombs) \/ NotedIn(f, w.silent)  BY DEF Keeps
    <3>2. NotedIn(f, w.silent) => NotedIn(f, r.silent)  BY <2>2 DEF NotedIn
    <3> QED  BY <2>2, <2>5, <3>1, <3>2
  <2> QED  BY <2>1, <2>2, <2>6 DEF GoodWork, r
<1> QED  BY <1>1, <1>2

LEMMA RmKeeps ==
  ASSUME NEW w, NEW p \in McpPaths, NEW F, IsWork(w), ~ w.failed, IsTree(w.tree), p # <<>>, Keeps(w, F)
  PROVE  GoodWork(RmAt(w, p), F)
<1> DEFINE r == RmAt(w, p)
<1>1. CASE p \notin DOMAIN w.tree
  <2>1. r = w  BY <1>1 DEF RmAt
  <2> QED  BY <2>1 DEF GoodWork
<1>2. CASE p \in DOMAIN w.tree
  <2>1. IsTree(Cut(w.tree, p))  BY CutTree
  <2>2. r.tree = Cut(w.tree, p) /\ r.silent = w.silent /\ r.tombs = w.tombs \union {Tombstone(w, p)}
    BY <1>2 DEF RmAt, IsWork
  <2>3. Tombstone(w, p).node = Subtree(w.tree, p)  BY DEF Tombstone
  <2> HIDE DEF r
  <2>4. DOMAIN w.tree \subseteq McpPaths  BY TreeIs
  <2>5. \A f \in ContentsOf(w.tree) : f \in ContentsOf(r.tree) \/ NotedIn(f, r.tombs)
    BY <2>2, <2>3, <2>4, CutContents DEF NotedIn
  <2>6. \A f : NotedIn(f, w.tombs) => NotedIn(f, r.tombs)  BY <2>2 DEF NotedIn
  <2>7. Keeps(r, F)  BY <2>2, <2>5, <2>6 DEF Keeps
  <2> QED  BY <2>1, <2>2, <2>7 DEF GoodWork, r
<1> QED  BY <1>1, <1>2

LEMMA OverwriteIs ==
  ASSUME NEW w, NEW to, NEW start, IsWork(w)
  PROVE  LET o == Overwrite(w, to, start)
         IN  /\ IsWork(o) /\ o.tree = w.tree /\ o.silent = w.silent /\ o.failed = w.failed
             /\ w.tombs \subseteq o.tombs
             /\ to \in DOMAIN w.tree => \E x \in o.tombs : x.node = Subtree(w.tree, to)
<1>1. CASE to \in DOMAIN w.tree
  <2>1. LET o == Overwrite(w, to, start)
        IN  /\ IsWork(o) /\ o.tree = w.tree /\ o.silent = w.silent /\ o.failed = w.failed
            /\ w.tombs \subseteq o.tombs /\ Tombstone(w, to) \in o.tombs
    BY <1>1 DEF Overwrite, IsWork
  <2>2. Tombstone(w, to).node = Subtree(w.tree, to)  BY DEF Tombstone
  <2> QED  BY <2>1, <2>2
<1>2. CASE to \notin DOMAIN w.tree  BY <1>2 DEF Overwrite
<1> QED  BY <1>1, <1>2

LEMMA CopyKeeps ==
  ASSUME NEW w, NEW to \in McpPaths, NEW p, NEW start, NEW F, IsWork(w), ~ w.failed, IsTree(w.tree),
         IsTree(Subtree(start, p)), Keeps(w, F)
  PROVE  GoodWork(CopyTo(w, p, to, start), F)
<1> DEFINE o == Overwrite(w, to, start)  n == Subtree(start, p)  r == Added(o, to, n)
<1>1. /\ IsWork(o) /\ o.tree = w.tree /\ o.silent = w.silent /\ o.failed = w.failed
      /\ w.tombs \subseteq o.tombs
      /\ to \in DOMAIN w.tree => \E x \in o.tombs : x.node = Subtree(w.tree, to)
  BY OverwriteIs
<1>2. CopyTo(w, p, to, start) = r  BY DEF CopyTo
<1> HIDE DEF o, n
<1>3. /\ IsWork(r) /\ r.tombs = o.tombs /\ r.silent = o.silent
      /\ ~ r.failed => IsTree(r.tree) /\ r.tree = Graft(o.tree, to, n)
  BY <1>1, AddedIs DEF n
<1> HIDE DEF r
<1>4. ASSUME ~ r.failed  PROVE Keeps(r, F)
  <2> SUFFICES ASSUME NEW f \in F
               PROVE  f \in ContentsOf(r.tree) \/ NotedIn(f, r.tombs) \/ NotedIn(f, r.silent)
    BY DEF Keeps
  <2>1. f \in ContentsOf(w.tree) \/ NotedIn(f, w.tombs) \/ NotedIn(f, w.silent)  BY DEF Keeps
  <2>2. NotedIn(f, w.tombs) => NotedIn(f, r.tombs)  BY <1>1, <1>3 DEF NotedIn
  <2>3. NotedIn(f, w.silent) => NotedIn(f, r.silent)  BY <1>1, <1>3
  <2>4. ASSUME f \in ContentsOf(w.tree)  PROVE f \in ContentsOf(r.tree) \/ NotedIn(f, r.tombs)
    <3>1. DOMAIN w.tree \subseteq McpPaths /\ DOMAIN n \subseteq McpPaths  BY TreeIs DEF n
    <3>2. f \in ContentsOf(Graft(w.tree, to, n)) \/ f \in ContentsOf(Subtree(w.tree, to))
      BY <2>4, <3>1, GraftContents
    <3>3. to \notin DOMAIN w.tree => ContentsOf(Subtree(w.tree, to)) = {}  BY SubtreeOfNothing
    <3> QED  BY <1>1, <1>3, <1>4, <3>2, <3>3 DEF NotedIn
  <2> QED  BY <2>1, <2>2, <2>3, <2>4
<1> QED  BY <1>2, <1>3, <1>4 DEF GoodWork

LEMMA MoveKeeps ==
  ASSUME NEW w, NEW to \in McpPaths, NEW p \in McpPaths, NEW start, NEW F,
         IsWork(w), ~ w.failed, IsTree(w.tree), p # <<>>, Keeps(w, F)
  PROVE  GoodWork(MoveTo(w, p, to, start), F)
<1> DEFINE o == Overwrite(w, to, start)  n == Subtree(w.tree, p)  c == Cut(w.tree, p)
           v == [o EXCEPT !.tree = Cut(@, p)]  r == Added(v, to, n)
<1>1. /\ IsWork(o) /\ o.tree = w.tree /\ o.silent = w.silent /\ o.failed = w.failed
      /\ w.tombs \subseteq o.tombs
      /\ to \in DOMAIN w.tree => \E x \in o.tombs : x.node = Subtree(w.tree, to)
  BY OverwriteIs
<1>2. MoveTo(w, p, to, start) = IF p \notin DOMAIN w.tree THEN o ELSE r  BY DEF MoveTo
<1> HIDE DEF o
<1>3. IsWork(v) /\ v.tree = c /\ v.silent = w.silent /\ v.failed = w.failed /\ v.tombs = o.tombs
  BY <1>1 DEF IsWork
<1>4. ASSUME NEW f \in F  PROVE f \in ContentsOf(w.tree) \/ NotedIn(f, o.tombs) \/ NotedIn(f, w.silent)
  BY <1>1 DEF Keeps, NotedIn
<1>5. CASE p \notin DOMAIN w.tree
  <2>1. Keeps(o, F)  BY <1>1, <1>4 DEF Keeps
  <2> QED  BY <1>1, <1>2, <1>5, <2>1 DEF GoodWork
<1>6. CASE p \in DOMAIN w.tree
  <2>1. IsTree(c) /\ IsTree(n)  BY <1>6, CutTree, SubtreeTree
  <2> HIDE DEF n, c, v
  <2>2. /\ IsWork(r) /\ r.tombs = o.tombs /\ r.silent = w.silent
        /\ ~ r.failed => IsTree(r.tree) /\ r.tree = Graft(c, to, n)
    BY <1>1, <1>3, <2>1, AddedIs
  <2> HIDE DEF r
  <2>3. ASSUME ~ r.failed  PROVE Keeps(r, F)
    <3> SUFFICES ASSUME NEW f \in F, f \in ContentsOf(w.tree)
                 PROVE  f \in ContentsOf(r.tree) \/ NotedIn(f, r.tombs)
      BY <1>4, <2>2 DEF Keeps
    <3>1. DOMAIN w.tree \subseteq McpPaths /\ DOMAIN n \subseteq McpPaths /\ DOMAIN c \subseteq McpPaths
      BY <2>1, TreeIs
    <3>2. ContentsOf(n) \subseteq ContentsOf(r.tree)  BY <2>2, <2>3, <3>1, GraftContents
    <3>3. f \in ContentsOf(c) \/ f \in ContentsOf(n)  BY <3>1, CutContents DEF c, n
    <3>4. ASSUME f \in ContentsOf(c)
          PROVE  f \in ContentsOf(r.tree) \/ f \in ContentsOf(Subtree(c, to))
      BY <2>2, <2>3, <3>1, <3>4, GraftContents
    <3>5. ASSUME f \in ContentsOf(Subtree(c, to))  PROVE NotedIn(f, r.tombs)
      <4>1. f \in ContentsOf(Subtree(w.tree, to))  BY <3>1, <3>5, CutSubtree DEF c
      <4>2. to \in DOMAIN w.tree  BY <4>1, SubtreeOfNothing
      <4> QED  BY <1>1, <2>2, <4>1, <4>2 DEF NotedIn
    <3> QED  BY <3>2, <3>3, <3>4, <3>5
  <2> QED  BY <1>2, <1>6, <2>2, <2>3 DEF GoodWork
<1> QED  BY <1>5, <1>6

LEMMA PathsAre ==
  /\ ToolPaths \subseteq McpPaths /\ <<>> \notin ToolPaths
  /\ \A t \in StartTrees : IsTree(t)
  /\ \A spec \in TransferSpecs :
       /\ Len(spec) \in Nat /\ DOMAIN spec = 1 .. Len(spec)
       /\ \A i \in DOMAIN spec : spec[i].from \in McpPaths /\ spec[i].to \in ToolPaths
<1>1. ToolPaths \subseteq McpPaths /\ <<>> \notin ToolPaths
  <2>1. SortedPaths \in Seq(Seq(EntryNames) \ {<<>>})  BY McpAssumption
  <2>2. \A i \in DOMAIN SortedPaths : SortedPaths[i] \in Seq(EntryNames) \ {<<>>}
    BY <2>1
  <2> QED  BY <2>2 DEF ToolPaths, ToSet, McpPaths
<1>2. ASSUME NEW spec \in TransferSpecs
      PROVE  /\ Len(spec) \in Nat /\ DOMAIN spec = 1 .. Len(spec)
             /\ \A i \in DOMAIN spec : spec[i].from \in McpPaths /\ spec[i].to \in ToolPaths
  <2>1. spec \in Seq([from : Seq(EntryNames), to : ToolPaths])  BY McpAssumption
  <2> DEFINE E == [from : Seq(EntryNames), to : ToolPaths]
  <2>2. Len(spec) \in Nat /\ DOMAIN spec = 1 .. Len(spec)  BY <2>1, LenProperties
  <2>3. \A i \in DOMAIN spec : spec[i] \in E
    <3> HIDE DEF E
    <3> QED  BY <2>1, <2>2, ElementOfSeq DEF E
  <2> QED  BY <2>2, <2>3 DEF McpPaths
<1> QED  BY <1>1, <1>2, McpAssumption

LEMMA SmallTrees ==
  /\ IsTree(EmptyTree) /\ \A f \in McpFiles : IsTree(FileNode(f))
<1>1. ASSUME NEW v \in McpFiles \union {Dict}  PROVE IsTree([p \in {<<>>} |-> v])
  <2> DEFINE t == [p \in {<<>>} |-> v]
  <2>1. DOMAIN t = {<<>>} /\ t[<<>>] = v  OBVIOUS
  <2> HIDE DEF t
  <2>2. <<>> \in McpPaths  BY EmptySeq DEF McpPaths
  <2>3. \A q \in McpPaths : Below(q, <<>>) => q = <<>>  BY <2>2, BelowOrder
  <2>4. IsTree(t)  BY <2>1, <2>2, <2>3, TreeIs
  <2> QED  BY <2>4 DEF t
<1> QED  BY <1>1 DEF EmptyTree, FileNode

(* What the call in flight may be *)
ToolFields == {"pc", "name", "rec", "base", "tree", "tombs", "silent", "ran", "command", "todo",
               "start", "spec", "linked"}

Shaped(t) == Function(t) /\ DOMAIN t = ToolFields

CommandOK(t) == t.command \in PatternCommands /\ t.todo \subseteq DOMAIN t.start \intersect ToolPaths

TransferOK(t) ==
  /\ t.spec \in TransferSpecs /\ SpecIsValid(t.spec) /\ t.linked \in 0 .. Len(t.spec)
  /\ \A i \in DOMAIN t.spec : t.spec[i].from \in DOMAIN t.base

ToolOK(t) ==
  /\ Shaped(t) /\ t.rec \in McpRecords /\ IsTree(t.tree) /\ IsTree(t.base) /\ IsTree(t.start)
  /\ t.pc \in {"root", "empty", "run", "match"} => Keeps(Work(t), ContentsOf(t.base))
  /\ t.pc = "match" => CommandOK(t)
  /\ t.pc = "link" => TransferOK(t)

McpInv ==
  /\ mroot = [r \in McpRecords |-> mroot[r]] /\ \A r \in McpRecords : mroot[r] # NoRoot => IsTree(mroot[r])
  /\ mopen \subseteq McpRecords /\ toolCalls \in 0 .. MaxCalls /\ foreign \in 0 .. MaxForeign
  /\ ToolOK(tool)

LEMMA KeepsAtFirst ==
  ASSUME NEW w  PROVE Keeps(w, ContentsOf(w.tree))
BY DEF Keeps

LEMMA NoToolOK ==
  /\ ToolOK(NoTool)
  /\ \A name, rec : rec \in McpRecords => ToolOK([NoTool EXCEPT !.pc = "root", !.name = name, !.rec = rec])
<1>1. Shaped(NoTool) /\ NoTool.pc = "idle" /\ NoTool.rec \in McpRecords
      /\ NoTool.tree = EmptyTree /\ NoTool.base = EmptyTree /\ NoTool.start = EmptyTree
  BY DEF NoTool, Shaped, Function, ToolFields, McpRecords
<1>2. ToolOK(NoTool)  BY <1>1, SmallTrees DEF ToolOK
<1>3. ASSUME NEW name, NEW rec, rec \in McpRecords
      PROVE  ToolOK([NoTool EXCEPT !.pc = "root", !.name = name, !.rec = rec])
  <2> DEFINE t == [NoTool EXCEPT !.pc = "root", !.name = name, !.rec = rec]
  <2>1. Shaped(t) /\ t.pc = "root" /\ t.rec = rec
        /\ t.tree = EmptyTree /\ t.base = EmptyTree /\ t.start = EmptyTree
    BY <1>1 DEF NoTool, Shaped, Function, ToolFields
  <2> HIDE DEF t
  <2>2. Work(t).tree = t.base  BY <2>1 DEF Work
  <2>3. Keeps(Work(t), ContentsOf(t.base))  BY <2>2, KeepsAtFirst
  <2>4. ToolOK(t)  BY <1>3, <2>1, <2>3, SmallTrees DEF ToolOK
  <2> QED  BY <2>4 DEF t
<1> QED  BY <1>2, <1>3

(* A command that goes on leaves a call that may be. *)
LEMMA ContinueOK ==
  ASSUME NEW w, NEW rest, ToolOK(rest), GoodWork(w, ContentsOf(rest.base)), rest.pc \in {"run", "match"},
         w.failed \in BOOLEAN, Continue(w, rest)
  PROVE  ToolOK(tool')
<1>1. CASE w.failed  BY <1>1, NoToolOK DEF Continue, FailMcp
<1>2. CASE ~ w.failed
  <2> DEFINE t == [rest EXCEPT !.tree = w.tree, !.tombs = w.tombs, !.silent = w.silent]
  <2>1. /\ Shaped(t) /\ t.pc = rest.pc /\ t.rec = rest.rec /\ t.base = rest.base /\ t.start = rest.start
        /\ t.tree = w.tree /\ t.tombs = w.tombs /\ t.silent = w.silent /\ t.command = rest.command
        /\ t.todo = rest.todo
    BY DEF ToolOK, Shaped, Function, ToolFields
  <2>2. tool' = t  BY <1>2 DEF Continue
  <2> HIDE DEF t
  <2>3. IsTree(w.tree) /\ Keeps(w, ContentsOf(t.base))  BY <1>2, <2>1 DEF GoodWork
  <2>4. Keeps(Work(t), ContentsOf(t.base))  BY <2>1, <2>3 DEF Keeps, Work
  <2>5. rest.pc = "match" => CommandOK(t)  BY <2>1 DEF CommandOK, ToolOK
  <2> QED  BY <2>1, <2>2, <2>3, <2>4, <2>5 DEF ToolOK
<1> QED  BY <1>1, <1>2

LEMMA MatchKeeps ==
  ASSUME NEW w, NEW c \in PatternCommands, NEW p \in ToolPaths, NEW start, NEW F,
         IsWork(w), ~ w.failed, IsTree(w.tree), IsTree(start), p \in DOMAIN start, Keeps(w, F)
  PROVE  GoodWork(MatchAt(w, c, p, start), F)
<1>1. p \in McpPaths /\ p # <<>>  BY PathsAre
<1>2. CASE c.name = "rm"
  <2>1. MatchAt(w, c, p, start) = RmAt(w, p)  BY <1>2 DEF MatchAt
  <2> QED  BY <1>1, <2>1, RmKeeps
<1>3. CASE c.name \in {"mv", "cp"}
  <2>1. c.to \in Templates  BY <1>3 DEF PatternCommands
  <2>2. c.to.dir \in McpPaths /\ c.to.name \in McpPaths  BY <2>1, McpAssumption DEF McpPaths
  <2>3. <<Last(p)>> \in McpPaths
    <3>1. Len(p) \in 1 .. Len(p)  BY <1>1 DEF McpPaths
    <3>2. Last(p) \in EntryNames  BY <1>1, <3>1, ElementOfSeq DEF McpPaths, Last
    <3> QED  BY <3>2 DEF McpPaths
  <2> DEFINE to == Rendered(c.to, p)
  <2>4. to \in McpPaths  BY <2>2, <2>3, JoinedPaths DEF Rendered
  <2> HIDE DEF to
  <2>5. CASE c.name = "cp"
    <3>1. MatchAt(w, c, p, start) = CopyTo(w, p, to, start)  BY <2>5 DEF MatchAt, to
    <3>2. IsTree(Subtree(start, p))  BY SubtreeTree
    <3> QED  BY <2>4, <3>1, <3>2, CopyKeeps
  <2>6. CASE c.name = "mv"
    <3>1. MatchAt(w, c, p, start) = MoveTo(w, p, to, start)  BY <2>6 DEF MatchAt, to
    <3> QED  BY <1>1, <2>4, <3>1, MoveKeeps
  <2> QED  BY <1>3, <2>5, <2>6
<1>4. c.name \in {"rm", "mv", "cp"}  BY DEF PatternCommands
<1> QED  BY <1>2, <1>3, <1>4

LEMMA MatchFails ==
  ASSUME NEW w, NEW c \in PatternCommands, NEW p, NEW start, IsWork(w), w.failed = FALSE
  PROVE  MatchAt(w, c, p, start).failed \in BOOLEAN
<1>1. \A v, to, n : IsWork(v) /\ v.failed = FALSE => Added(v, to, n).failed \in BOOLEAN
  BY DEF Added, IsWork
<1>2. \A to : LET o == Overwrite(w, to, start) IN IsWork(o) /\ o.failed = FALSE  BY OverwriteIs
<1>3. RmAt(w, p).failed \in BOOLEAN  BY DEF RmAt, IsWork
<1>4. \A to : CopyTo(w, p, to, start).failed \in BOOLEAN  BY <1>1, <1>2 DEF CopyTo
<1>5. ASSUME NEW to  PROVE MoveTo(w, p, to, start).failed \in BOOLEAN
  <2> DEFINE o == Overwrite(w, to, start)  v == [o EXCEPT !.tree = Cut(w.tree, p)]
  <2>1. IsWork(o) /\ o.failed = FALSE /\ o.tree = w.tree  BY <1>2, OverwriteIs
  <2>2. MoveTo(w, p, to, start) = IF p \notin DOMAIN w.tree THEN o
                                  ELSE Added([o EXCEPT !.tree = Cut(@, p)], to, Subtree(w.tree, p))
    BY DEF MoveTo
  <2> HIDE DEF o
  <2>3. IsWork([o EXCEPT !.tree = Cut(@, p)]) /\ [o EXCEPT !.tree = Cut(@, p)].failed = FALSE
    BY <2>1 DEF IsWork
  <2> QED  BY <1>1, <2>1, <2>2, <2>3
<1>6. c.name \in {"rm", "mv", "cp"}  BY DEF PatternCommands
<1> QED  BY <1>3, <1>4, <1>5, <1>6 DEF MatchAt

LEMMA McpInvAtFirst == McpInit => McpInv
<1> SUFFICES ASSUME McpInit  PROVE McpInv
  OBVIOUS
<1>1. ToolOK(tool) /\ mopen \subseteq McpRecords /\ toolCalls = 0 /\ foreign = 0
  BY NoToolOK DEF McpInit, McpRecords
<1>2. mroot \in [McpRecords -> {NoRoot} \union StartTrees]  BY DEF McpInit
<1>3. mroot = [r \in McpRecords |-> mroot[r]]  BY <1>2
<1>4. \A r \in McpRecords : mroot[r] # NoRoot => IsTree(mroot[r])  BY <1>2, PathsAre
<1>5. 0 \in 0 .. MaxCalls /\ 0 \in 0 .. MaxForeign  BY McpAssumption
<1> QED  BY <1>1, <1>3, <1>4, <1>5 DEF McpInv

(* What a step does to the records is the setting of a root to a tree. *)
RootSet(rec, t) == mroot' = [mroot EXCEPT ![rec] = t]

LEMMA RootSetOK ==
  ASSUME McpInv, NEW rec \in McpRecords, NEW t, RootSet(rec, t), t = NoRoot \/ IsTree(t)
  PROVE  /\ mroot' = [r \in McpRecords |-> mroot'[r]]
         /\ \A r \in McpRecords : mroot'[r] # NoRoot => IsTree(mroot'[r])
<1>1. mroot = [r \in McpRecords |-> mroot[r]] /\ \A r \in McpRecords : mroot[r] # NoRoot => IsTree(mroot[r])
  BY DEF McpInv
<1>2. \A r \in McpRecords : mroot'[r] = IF r = rec THEN t ELSE mroot[r]  BY <1>1 DEF RootSet
<1>3. mroot' = [r \in McpRecords |-> mroot'[r]]
  <2>1. DOMAIN mroot = McpRecords  BY <1>1
  <2>2. mroot' = [r \in DOMAIN mroot |-> IF r = rec THEN t ELSE mroot[r]]  BY DEF RootSet
  <2> QED  BY <2>1, <2>2
<1>4. \A r \in McpRecords : mroot'[r] # NoRoot => IsTree(mroot'[r])  BY <1>1, <1>2
<1> QED  BY <1>3, <1>4

LEMMA CallMcpOK ==
  ASSUME McpInv, NEW name, NEW rec \in McpRecords, CallMcp(name, rec)  PROVE McpInv'
<1>1. toolCalls' \in 0 .. MaxCalls
  <2>1. toolCalls \in 0 .. MaxCalls /\ toolCalls < MaxCalls /\ toolCalls' = toolCalls + 1  BY DEF CallMcp, McpInv
  <2> QED  BY <2>1, McpAssumption
<1>2. ToolOK(tool')  BY NoToolOK DEF CallMcp
<1> QED  BY <1>1, <1>2 DEF CallMcp, McpInv

LEMMA GetRootOK ==
  ASSUME McpInv, GetRootForMcpWrite  PROVE McpInv'
<1>0. UNCHANGED <<mroot, mopen, toolCalls, foreign>>  BY DEF GetRootForMcpWrite, Quiet
<1>1. ToolOK(tool) /\ tool.pc = "root"  BY DEF McpInv, GetRootForMcpWrite
<1> DEFINE r == mroot[tool.rec]
<1>2. CASE tool.rec \notin mopen  BY <1>0, <1>2, NoToolOK DEF GetRootForMcpWrite, FailMcp, McpInv
<1>3. CASE tool.rec \in mopen /\ r = NoRoot
  <2>1. tool' = [tool EXCEPT !.pc = "empty"]  BY <1>3 DEF GetRootForMcpWrite
  <2>2. Shaped(tool') /\ tool'.pc = "empty" /\ tool'.rec = tool.rec /\ tool'.base = tool.base
        /\ tool'.tree = tool.tree /\ tool'.start = tool.start
        /\ tool'.tombs = tool.tombs /\ tool'.silent = tool.silent
    BY <1>1, <2>1 DEF ToolOK, Shaped, Function, ToolFields
  <2>3. Work(tool') = Work(tool)  BY <2>2 DEF Work
  <2>4. ToolOK(tool')  BY <1>1, <2>2, <2>3 DEF ToolOK
  <2> QED  BY <1>0, <2>4 DEF McpInv
<1>4. CASE tool.rec \in mopen /\ r # NoRoot
  <2>1. tool' = [tool EXCEPT !.pc = "run", !.base = r, !.tree = r]  BY <1>4 DEF GetRootForMcpWrite
  <2> HIDE DEF r
  <2>2. Shaped(tool') /\ tool'.pc = "run" /\ tool'.rec = tool.rec /\ tool'.base = r
        /\ tool'.tree = r /\ tool'.start = tool.start
    BY <1>1, <2>1 DEF ToolOK, Shaped, Function, ToolFields
  <2>3. Work(tool').tree = r  BY <2>2 DEF Work
  <2>4. Keeps(Work(tool'), ContentsOf(tool'.base))  BY <2>2, <2>3, KeepsAtFirst
  <2>5. IsTree(r)  BY <1>1, <1>4 DEF McpInv, ToolOK, r
  <2>6. ToolOK(tool')  BY <1>1, <2>2, <2>4, <2>5 DEF ToolOK
  <2> QED  BY <1>0, <2>6 DEF McpInv
<1> QED  BY <1>2, <1>3, <1>4

LEMMA SetEmptyOK ==
  ASSUME McpInv, SetMcpEmpty  PROVE McpInv'
<1>1. ToolOK(tool) /\ tool.pc = "empty" /\ UNCHANGED <<mopen, toolCalls, foreign>>
      /\ RootSet(tool.rec, EmptyTree) /\ tool' = [tool EXCEPT !.pc = "run"]
  BY DEF McpInv, SetMcpEmpty, Quiet, RootSet
<1>2. Shaped(tool') /\ tool'.pc = "run" /\ tool'.rec = tool.rec /\ tool'.base = tool.base
      /\ tool'.tree = tool.tree /\ tool'.start = tool.start
      /\ tool'.tombs = tool.tombs /\ tool'.silent = tool.silent
  BY <1>1 DEF ToolOK, Shaped, Function, ToolFields
<1>3. Work(tool') = Work(tool)  BY <1>2 DEF Work
<1>4. ToolOK(tool')  BY <1>1, <1>2, <1>3 DEF ToolOK
<1>5. /\ mroot' = [r \in McpRecords |-> mroot'[r]]
      /\ \A r \in McpRecords : mroot'[r] # NoRoot => IsTree(mroot'[r])
  BY <1>1, RootSetOK, SmallTrees DEF ToolOK
<1> QED  BY <1>1, <1>4, <1>5 DEF McpInv

LEMMA RunPutOK ==
  ASSUME McpInv, NEW p \in ToolPaths, NEW n, IsTree(n), RunPut(p, n)  PROVE McpInv'
<1>1. ToolOK(tool) /\ tool.pc = "run" /\ UNCHANGED <<mroot, mopen, toolCalls, foreign>>
  BY DEF McpInv, RunPut, MayRun, Quiet
<1> DEFINE rest == [tool EXCEPT !.ran = @ + 1]  w == PutAt(Work(tool), p, n)
<1>2. Continue(w, rest)  BY DEF RunPut
<1>3. Shaped(rest) /\ rest.pc = "run" /\ rest.rec = tool.rec /\ rest.base = tool.base
      /\ rest.tree = tool.tree /\ rest.start = tool.start
      /\ rest.tombs = tool.tombs /\ rest.silent = tool.silent
  BY <1>1 DEF ToolOK, Shaped, Function, ToolFields
<1> HIDE DEF rest
<1>4. Work(rest) = Work(tool)  BY <1>3 DEF Work
<1>5. ToolOK(rest)  BY <1>1, <1>3, <1>4 DEF ToolOK
<1>6. IsWork(Work(tool)) /\ ~ Work(tool).failed /\ Work(tool).tree = tool.tree  BY DEF Work, IsWork
<1>7. GoodWork(w, ContentsOf(rest.base))
  <2>1. Keeps(Work(tool), ContentsOf(rest.base)) /\ IsTree(tool.tree)  BY <1>1, <1>3 DEF ToolOK
  <2>2. p \in McpPaths  BY PathsAre
  <2> QED  BY <1>6, <2>1, <2>2, PutKeeps
<1>8. w.failed \in BOOLEAN  BY DEF PutAt, Work
<1> HIDE DEF w
<1>9. ToolOK(tool')  BY <1>2, <1>3, <1>5, <1>7, <1>8, ContinueOK
<1> QED  BY <1>1, <1>9 DEF McpInv

LEMMA RunPatternOK ==
  ASSUME McpInv, NEW c \in PatternCommands, RunPattern(c)  PROVE McpInv'
<1>1. ToolOK(tool) /\ tool.pc = "run" /\ UNCHANGED <<mroot, mopen, toolCalls, foreign>>
  BY DEF McpInv, RunPattern, MayRun, Quiet
<1> DEFINE found == Matches(tool.tree, c.from)
<1>2. tool' = [tool EXCEPT !.pc = IF found = {} THEN "run" ELSE "match", !.ran = @ + 1,
                           !.command = c, !.todo = found, !.start = tool.tree]
  BY DEF RunPattern
<1>3. found \subseteq DOMAIN tool.tree \intersect ToolPaths  BY DEF Matches
<1> HIDE DEF found
<1>4. Shaped(tool') /\ tool'.pc \in {"run", "match"} /\ tool'.rec = tool.rec /\ tool'.base = tool.base
      /\ tool'.tree = tool.tree /\ tool'.start = tool.tree /\ tool'.command = c /\ tool'.todo = found
      /\ tool'.tombs = tool.tombs /\ tool'.silent = tool.silent
  BY <1>1, <1>2 DEF ToolOK, Shaped, Function, ToolFields
<1>5. Work(tool') = Work(tool)  BY <1>4 DEF Work
<1>6. CommandOK(tool')  BY <1>3, <1>4 DEF CommandOK
<1>7. ToolOK(tool')  BY <1>1, <1>4, <1>5, <1>6 DEF ToolOK
<1> QED  BY <1>1, <1>7 DEF McpInv

LEMMA ApplyMatchOK ==
  ASSUME McpInv, NEW p \in tool.todo, ApplyMatch(p)  PROVE McpInv'
<1>1. ToolOK(tool) /\ tool.pc = "match" /\ CommandOK(tool) /\ UNCHANGED <<mroot, mopen, toolCalls, foreign>>
  BY DEF McpInv, ApplyMatch, Quiet, ToolOK
<1> DEFINE last == [tool EXCEPT !.pc = "run", !.command = "none", !.todo = {}, !.start = EmptyTree]
           more == [tool EXCEPT !.todo = @ \ {p}]
           w == MatchAt(Work(tool), tool.command, p, tool.start)
<1>2. Continue(w, IF tool.todo = {p} THEN last ELSE more)  BY DEF ApplyMatch
<1>3. Shaped(last) /\ last.pc = "run" /\ last.rec = tool.rec /\ last.base = tool.base
      /\ last.tree = tool.tree /\ last.start = EmptyTree
      /\ last.tombs = tool.tombs /\ last.silent = tool.silent
  BY <1>1 DEF ToolOK, Shaped, Function, ToolFields
<1>4. Shaped(more) /\ more.pc = "match" /\ more.rec = tool.rec /\ more.base = tool.base
      /\ more.tree = tool.tree /\ more.start = tool.start /\ more.command = tool.command
      /\ more.todo = tool.todo \ {p} /\ more.tombs = tool.tombs /\ more.silent = tool.silent
  BY <1>1 DEF ToolOK, Shaped, Function, ToolFields
<1> HIDE DEF last, more
<1>5. Work(last) = Work(tool) /\ Work(more) = Work(tool)  BY <1>3, <1>4 DEF Work
<1>6. ToolOK(last)  BY <1>1, <1>3, <1>5, SmallTrees DEF ToolOK
<1>7. ToolOK(more)
  <2>1. CommandOK(more)  BY <1>1, <1>4 DEF CommandOK
  <2> QED  BY <1>1, <1>4, <1>5, <2>1 DEF ToolOK
<1>8. IsWork(Work(tool)) /\ Work(tool).failed = FALSE /\ Work(tool).tree = tool.tree  BY DEF Work, IsWork
<1>9. GoodWork(w, ContentsOf(tool.base))
  <2>1. Keeps(Work(tool), ContentsOf(tool.base)) /\ IsTree(tool.tree) /\ IsTree(tool.start)
    BY <1>1 DEF ToolOK
  <2>2. tool.command \in PatternCommands /\ p \in ToolPaths /\ p \in DOMAIN tool.start
    BY <1>1 DEF CommandOK
  <2> QED  BY <1>8, <2>1, <2>2, MatchKeeps
<1>10. w.failed \in BOOLEAN  BY <1>1, <1>8, MatchFails DEF CommandOK
<1> HIDE DEF w
<1>11. ToolOK(tool')
  <2>1. CASE tool.todo = {p}  BY <1>2, <1>3, <1>6, <1>9, <1>10, <2>1, ContinueOK
  <2>2. CASE tool.todo # {p}  BY <1>2, <1>4, <1>7, <1>9, <1>10, <2>2, ContinueOK
  <2> QED  BY <2>1, <2>2
<1> QED  BY <1>1, <1>11 DEF McpInv

LEMMA SetRootsOK ==
  ASSUME McpInv, CommitMcp \/ SetTransferred \/ SetMcpMount  PROVE McpInv'
<1>1. ToolOK(tool) /\ UNCHANGED <<mopen, toolCalls, foreign>> /\ tool' = NoTool
  BY DEF McpInv, CommitMcp, SetTransferred, SetMcpMount, Quiet
<1>2. RootSet(tool.rec, tool.tree) \/ mroot' = mroot
  BY DEF CommitMcp, SetTransferred, SetMcpMount, RootSet
<1>3. CASE mroot' = mroot  BY <1>1, <1>3, NoToolOK DEF McpInv
<1>4. CASE RootSet(tool.rec, tool.tree)
  <2>1. /\ mroot' = [r \in McpRecords |-> mroot'[r]]
        /\ \A r \in McpRecords : mroot'[r] # NoRoot => IsTree(mroot'[r])
    BY <1>1, <1>4, RootSetOK DEF ToolOK
  <2> QED  BY <1>1, <2>1, NoToolOK DEF McpInv
<1> QED  BY <1>2, <1>3, <1>4

LEMMA StartTransferOK ==
  ASSUME McpInv, NEW rec \in McpRecords, NEW spec \in TransferSpecs, NEW mode,
         StartTransfer(rec, spec, mode)
  PROVE  McpInv'
<1> DEFINE source == mroot[McpMain]
           target == IF mroot[rec] = NoRoot THEN EmptyTree ELSE mroot[rec]
           ok == \A i \in DOMAIN spec : /\ spec[i].from \in DOMAIN source
                                        /\ mode = "fail_if_exists" => spec[i].to \notin DOMAIN target
           t == [NoTool EXCEPT !.pc = "link", !.name = "transfer_paths", !.rec = rec,
                               !.base = source, !.tree = target, !.spec = spec, !.start = target]
<1>1. /\ ToolOK(tool) /\ mopen' = mopen /\ foreign' = foreign /\ toolCalls' = toolCalls + 1 /\ toolCalls < MaxCalls
      /\ mroot[McpMain] # NoRoot /\ SpecIsValid(spec) /\ RootSet(rec, target)
      /\ tool' = IF ok THEN t ELSE tool
  BY DEF McpInv, StartTransfer, RootSet
<1>2. toolCalls' \in 0 .. MaxCalls
  <2>1. toolCalls \in 0 .. MaxCalls  BY DEF McpInv
  <2> QED  BY <1>1, <2>1, McpAssumption
<1>3. IsTree(source) /\ IsTree(target)  BY <1>1, SmallTrees DEF McpInv, McpRecords
<1>4. /\ mroot' = [r \in McpRecords |-> mroot'[r]]
      /\ \A r \in McpRecords : mroot'[r] # NoRoot => IsTree(mroot'[r])
  BY <1>1, <1>3, RootSetOK
<1>5. Len(spec) \in Nat  BY PathsAre
<1> HIDE DEF source, target
<1>6. ASSUME ok  PROVE ToolOK(t)
  <2>1. /\ Shaped(t) /\ t.pc = "link" /\ t.rec = rec /\ t.base = source /\ t.tree = target
        /\ t.start = target /\ t.spec = spec /\ t.linked = 0
    BY DEF NoTool, Shaped, Function, ToolFields
  <2> HIDE DEF t
  <2>2. \A i \in DOMAIN t.spec : t.spec[i].from \in DOMAIN t.base  BY <1>6, <2>1
  <2>3. TransferOK(t)  BY <1>1, <1>5, <2>1, <2>2 DEF TransferOK
  <2> QED  BY <1>3, <2>1, <2>3 DEF ToolOK
<1>7. ToolOK(tool')  BY <1>1, <1>6
<1> QED  BY <1>1, <1>2, <1>4, <1>7 DEF McpInv

(* The entry that is linked next, and what linking it makes of the call *)
LEMMA LinkEntryIs ==
  ASSUME McpInv, LinkEntry
  PROVE  LET e == tool.spec[tool.linked + 1]
             n == Subtree(tool.base, e.from)
         IN  /\ ToolOK(tool) /\ tool.pc = "link" /\ UNCHANGED <<mroot, mopen, toolCalls, foreign>>
             /\ tool.linked + 1 \in DOMAIN tool.spec /\ e.to \in McpPaths /\ e.from \in McpPaths
             /\ IsTree(n)
             /\ \/ tool' = NoTool
                \/ /\ ToolOK(tool') /\ tool'.pc = "link" /\ tool'.rec = tool.rec
                   /\ tool'.base = tool.base /\ tool'.spec = tool.spec
                   /\ tool'.linked = tool.linked + 1 /\ tool'.tree = Graft(tool.tree, e.to, n)
<1> DEFINE e == tool.spec[tool.linked + 1]  n == Subtree(tool.base, e.from)
           w == Added(Work(tool), e.to, n)  rest == [tool EXCEPT !.linked = @ + 1]
<1>1. ToolOK(tool) /\ tool.pc = "link" /\ UNCHANGED <<mroot, mopen, toolCalls, foreign>>
      /\ tool.linked < Len(tool.spec) /\ Continue(w, rest) /\ TransferOK(tool)
  BY DEF McpInv, LinkEntry, Quiet, ToolOK
<1>2. tool.linked + 1 \in DOMAIN tool.spec /\ tool.linked + 1 \in 0 .. Len(tool.spec)
  <2>1. /\ tool.linked \in 0 .. Len(tool.spec) /\ Len(tool.spec) \in Nat
        /\ DOMAIN tool.spec = 1 .. Len(tool.spec)
    BY <1>1, PathsAre DEF TransferOK
  <2> QED  BY <1>1, <2>1
<1>3. e.to \in McpPaths /\ e.from \in McpPaths /\ e.from \in DOMAIN tool.base
  BY <1>1, <1>2, PathsAre DEF TransferOK
<1> HIDE DEF e
<1>4. IsTree(n)  BY <1>1, <1>3, SubtreeTree DEF ToolOK
<1> HIDE DEF n
<1>5. IsWork(Work(tool)) /\ Work(tool).failed = FALSE /\ Work(tool).tree = tool.tree
  BY DEF Work, IsWork
<1>6. /\ w.failed \in BOOLEAN
      /\ ~ w.failed => IsTree(w.tree) /\ w.tree = Graft(tool.tree, e.to, n)
  <2>1. ~ w.failed => IsTree(w.tree) /\ w.tree = Graft(Work(tool).tree, e.to, n)
    BY <1>1, <1>3, <1>4, <1>5, AddedIs DEF ToolOK
  <2>2. w.failed \in BOOLEAN  BY DEF Added, Work
  <2> QED  BY <1>5, <2>1, <2>2
<1>7. CASE w.failed  BY <1>1, <1>2, <1>3, <1>4, <1>7 DEF Continue, FailMcp, e, n
<1>8. CASE ~ w.failed
  <2>1. tool' = [rest EXCEPT !.tree = w.tree, !.tombs = w.tombs, !.silent = w.silent]
    BY <1>1, <1>8 DEF Continue
  <2> HIDE DEF w
  <2>2. /\ Shaped(tool') /\ tool'.pc = "link" /\ tool'.rec = tool.rec /\ tool'.base = tool.base
        /\ tool'.spec = tool.spec /\ tool'.linked = tool.linked + 1 /\ tool'.tree = w.tree
        /\ tool'.start = tool.start
    BY <1>1, <2>1 DEF ToolOK, Shaped, Function, ToolFields
  <2>3. TransferOK(tool')  BY <1>1, <1>2, <2>2 DEF TransferOK
  <2>4. ToolOK(tool')  BY <1>1, <1>6, <1>8, <2>2, <2>3 DEF ToolOK
  <2> QED  BY <1>1, <1>2, <1>3, <1>4, <1>6, <1>8, <2>2, <2>4 DEF e, n
<1> QED  BY <1>6, <1>7, <1>8

LEMMA LinkEntryOK ==
  ASSUME McpInv, LinkEntry  PROVE McpInv'
<1>1. UNCHANGED <<mroot, mopen, toolCalls, foreign>> /\ (tool' = NoTool \/ ToolOK(tool'))
  BY LinkEntryIs
<1> QED  BY <1>1, NoToolOK DEF McpInv

LEMMA CreateBranchOK ==
  ASSUME McpInv, NEW p \in ToolPaths, CreateMcpBranch(p)  PROVE McpInv'
<1> DEFINE n == Subtree(mroot[McpMain], p)
<1>1. /\ mroot' = mroot /\ foreign' = foreign /\ toolCalls' = toolCalls + 1 /\ toolCalls < MaxCalls
      /\ mopen' = mopen \union {McpChild} /\ mroot[McpMain] # NoRoot /\ p \in DOMAIN mroot[McpMain]
      /\ tool' = [NoTool EXCEPT !.pc = "mount", !.rec = McpChild, !.tree = n]
  BY DEF CreateMcpBranch
<1>2. toolCalls' \in 0 .. MaxCalls /\ mopen' \subseteq McpRecords
  <2>1. toolCalls \in 0 .. MaxCalls /\ mopen \subseteq McpRecords  BY DEF McpInv
  <2> QED  BY <1>1, <2>1, McpAssumption DEF McpRecords
<1>3. IsTree(n)
  <2>1. IsTree(mroot[McpMain])  BY <1>1 DEF McpInv, McpRecords
  <2> QED  BY <1>1, <2>1, SubtreeTree
<1> HIDE DEF n
<1>4. /\ Shaped(tool') /\ tool'.pc = "mount" /\ tool'.rec = McpChild /\ tool'.base = EmptyTree
      /\ tool'.tree = n /\ tool'.start = EmptyTree
  BY <1>1 DEF NoTool, Shaped, Function, ToolFields
<1>5. ToolOK(tool')  BY <1>3, <1>4, SmallTrees DEF ToolOK, McpRecords
<1> QED  BY <1>1, <1>2, <1>5 DEF McpInv

LEMMA ForeignOK ==
  ASSUME McpInv, NEW rec \in McpRecords, CloseMcpBranch(rec) \/ \E t \in StartTrees : ForeignRoot(rec, t)
  PROVE  McpInv'
<1>1. foreign' = foreign + 1 /\ foreign < MaxForeign /\ UNCHANGED <<tool, toolCalls>> /\ mopen' \subseteq mopen
  BY DEF CloseMcpBranch, ForeignRoot
<1>2. foreign' \in 0 .. MaxForeign /\ mopen' \subseteq McpRecords
  <2>1. foreign \in 0 .. MaxForeign /\ mopen \subseteq McpRecords  BY DEF McpInv
  <2> QED  BY <1>1, <2>1, McpAssumption
<1>3. PICK t \in StartTrees \union {NoRoot} : RootSet(rec, t)
  BY DEF CloseMcpBranch, ForeignRoot, RootSet
<1>4. t = NoRoot \/ IsTree(t)  BY PathsAre
<1>5. /\ mroot' = [r \in McpRecords |-> mroot'[r]]
      /\ \A r \in McpRecords : mroot'[r] # NoRoot => IsTree(mroot'[r])
  BY <1>3, <1>4, RootSetOK
<1> QED  BY <1>1, <1>2, <1>5 DEF McpInv

LEMMA McpInvNext == McpInv /\ [McpNext]_mcpVars => McpInv'
<1> SUFFICES ASSUME McpInv, [McpNext]_mcpVars  PROVE McpInv'
  OBVIOUS
<1>1. ASSUME NEW rec \in McpRecords, NEW name \in {"fs_tool", "fs_batch"}, CallMcp(name, rec)
      PROVE  McpInv'
  BY <1>1, CallMcpOK
<1>2. ASSUME NEW rec \in McpRecords, NEW spec \in TransferSpecs, NEW mode \in {"replace", "fail_if_exists"},
             StartTransfer(rec, spec, mode)
      PROVE  McpInv'
  BY <1>2, StartTransferOK
<1>3. ASSUME NEW rec \in McpRecords, CloseMcpBranch(rec) \/ \E t \in StartTrees : ForeignRoot(rec, t)
      PROVE  McpInv'
  BY <1>3, ForeignOK
<1>4. ASSUME GetRootForMcpWrite  PROVE McpInv'  BY <1>4, GetRootOK
<1>5. ASSUME SetMcpEmpty  PROVE McpInv'  BY <1>5, SetEmptyOK
<1>6. ASSUME CommitMcp \/ SetTransferred \/ SetMcpMount  PROVE McpInv'  BY <1>6, SetRootsOK
<1>7. ASSUME LinkEntry  PROVE McpInv'  BY <1>7, LinkEntryOK
<1>8. ASSUME NEW p \in ToolPaths, RunPut(p, EmptyTree) \/ \E f \in McpFiles : RunPut(p, FileNode(f))
      PROVE  McpInv'
  BY <1>8, RunPutOK, SmallTrees
<1>9. ASSUME NEW c \in PatternCommands, RunPattern(c)  PROVE McpInv'  BY <1>9, RunPatternOK
<1>10. ASSUME NEW p \in tool.todo, ApplyMatch(p)  PROVE McpInv'  BY <1>10, ApplyMatchOK
<1>11. ASSUME NEW p \in ToolPaths, CreateMcpBranch(p)  PROVE McpInv'  BY <1>11, CreateBranchOK
<1>12. ASSUME UNCHANGED mcpVars  PROVE McpInv'
  <2>1. UNCHANGED <<mroot, mopen, tool, toolCalls, foreign>>  BY <1>12 DEF mcpVars
  <2> QED  BY <2>1 DEF McpInv
<1> QED
  BY <1>1, <1>2, <1>3, <1>4, <1>5, <1>6, <1>7, <1>8, <1>9, <1>10, <1>11, <1>12 DEF McpNext

LEMMA McpInvAlways == McpSpec => []McpInv
<1> QED  BY McpInvAtFirst, McpInvNext, PTL DEF McpSpec

(* A set of numbers has a smallest one. *)
LEMMA SmallestOf ==
  ASSUME NEW T, T \subseteq Nat, T # {}
  PROVE  \E n \in T : \A m \in T : n <= m
<1>. DEFINE R == {ss \in Nat \X Nat : ss[1] < ss[2]}
<1>1. R = OpToRel(<, Nat)
  BY DEF OpToRel
<1>2. IsWellFoundedOn(R, Nat)
  BY <1>1, NatLessThanWellFounded, Zenon
<1>3. \E x \in T : \A y \in T : ~ (<<y, x>> \in R)
  <2>. HIDE DEF R
  <2>. QED BY <1>2, WFMin
<1>4. \A x, y \in Nat : <<y, x>> \notin R => x <= y
  <2>. SUFFICES ASSUME NEW x \in Nat, NEW y \in Nat, ~ (x <= y) PROVE <<y, x>> \in R
    OBVIOUS
  <2>1. y < x OBVIOUS
  <2>2. <<y, x>> \in Nat \X Nat /\ <<y, x>>[1] = y /\ <<y, x>>[2] = x OBVIOUS
  <2>. QED BY <2>1, <2>2
<1>. HIDE DEF R
<1>. QED BY <1>3, <1>4

(* mkdir, write, rm, mv, cp and transfer leave trees, whatever they are asked for *)
(* and other requests do meanwhile: every root, and every tree that a tool       *)
(* builds, has a directory above each of its paths.                              *)
THEOREM RootsAreTrees == McpSpec => []McpTypeOK
<1>1. McpInv => McpTypeOK  BY DEF McpInv, McpTypeOK, ToolOK
<1> QED  BY <1>1, McpInvAlways, PTL

LEMMA CommitsKeep ==
  ASSUME McpInv, CommitMcp, NEW p \in DOMAIN tool.base
  PROVE  \/ tool.base[p] \in {Dict} \union ContentsOf(mroot'[tool.rec])
         \/ \E t \in tool.tombs \union tool.silent : tool.base[p] \in ContentsOf(t.node)
<1>1. ToolOK(tool) /\ tool.pc = "run" /\ mroot' = [mroot EXCEPT ![tool.rec] = tool.tree]
  BY DEF McpInv, CommitMcp
<1>2. mroot'[tool.rec] = tool.tree
  <2>1. DOMAIN mroot = McpRecords  BY DEF McpInv
  <2> QED  BY <1>1, <2>1 DEF ToolOK
<1>3. Keeps(Work(tool), ContentsOf(tool.base))  BY <1>1 DEF ToolOK
<1>4. CASE tool.base[p] = Dict  BY <1>4
<1>5. CASE tool.base[p] # Dict
  <2>1. tool.base[p] \in ContentsOf(tool.base)  BY <1>5 DEF ContentsOf
  <2>2. \/ tool.base[p] \in ContentsOf(tool.tree)
        \/ NotedIn(tool.base[p], tool.tombs) \/ NotedIn(tool.base[p], tool.silent)
    BY <1>3, <2>1 DEF Keeps, Work
  <2> QED  BY <1>2, <2>2 DEF NotedIn
<1> QED  BY <1>4, <1>5

(* When a tool of executeTool sets the root, each file of the tree it read is in *)
(* the new one or below a tombstone of its answer, unless a mkdir or a write,    *)
(* which answer with none, was asked to take the place.                          *)
THEOREM ToolsTellWhatTheyLose == McpSpec => NothingLostUntold
<1> DEFINE Told == CommitMcp =>
       \A p \in DOMAIN tool.base :
         \/ tool.base[p] \in {Dict} \union ContentsOf(mroot'[tool.rec])
         \/ \E t \in tool.tombs \union tool.silent : tool.base[p] \in ContentsOf(t.node)
<1>1. McpInv => Told  BY CommitsKeep
<1> HIDE DEF Told
<1>2. McpSpec => [][Told]_mcpVars  BY <1>1, McpInvAlways, PTL
<1> QED  BY <1>2 DEF Told, NothingLostUntold

(* In the order of their strings, the paths below a path follow it at once: so   *)
(* they do where no name has a character that comes before the slash, - or . say. *)
PathsFollow ==
  \A i, k \in DOMAIN SortedPaths :
    Below(SortedPaths[i], SortedPaths[k]) =>
      i <= k /\ \A j \in i .. k : Below(SortedPaths[i], SortedPaths[j])

LEMMA ValidApart ==
  ASSUME PathsFollow, NEW spec \in TransferSpecs, SpecIsValid(spec),
         NEW i \in DOMAIN spec, NEW k \in DOMAIN spec, i # k
  PROVE  ~ Below(spec[i].to, spec[k].to)
<1> DEFINE S == SortedPaths  Target(j) == S[j] \in TargetsOf(spec)
<1>1. S \in Seq(Seq(EntryNames) \ {<<>>})  BY McpAssumption
<1>2. DOMAIN S \subseteq Nat
  <2>1. DOMAIN S = 1 .. Len(S)  BY <1>1
  <2>2. 1 .. Len(S) \subseteq Nat  OBVIOUS
  <2> QED  BY <2>1, <2>2
<1>3. \A x \in DOMAIN spec : \E a \in DOMAIN S : S[a] = spec[x].to
  <2>1. \A x \in DOMAIN spec : spec[x].to \in ToolPaths  BY PathsAre
  <2> QED  BY <2>1 DEF ToolPaths, ToSet
<1>4. PICK a \in DOMAIN S : S[a] = spec[i].to  BY <1>3
<1>5. PICK c \in DOMAIN S : S[c] = spec[k].to  BY <1>3
<1> SUFFICES ASSUME Below(spec[i].to, spec[k].to)  PROVE FALSE
  OBVIOUS
<1>6. spec[i].to # spec[k].to  BY DEF SpecIsValid
<1>7. a <= c /\ \A j \in a .. c : Below(S[a], S[j])  BY <1>4, <1>5 DEF PathsFollow
<1>8. a < c  BY <1>2, <1>4, <1>5, <1>6, <1>7
<1>9. Target(a) /\ Target(c)  BY <1>4, <1>5 DEF TargetsOf
<1> DEFINE later == {j \in DOMAIN S : a < j /\ Target(j)}
<1> HIDE DEF Target
<1>10. later \in SUBSET Nat /\ c \in later  BY <1>2, <1>8, <1>9
<1>11. PICK m \in later : \A j \in later : m <= j  BY <1>10, SmallestOf
<1>12. m \in DOMAIN S /\ a < m /\ Target(m) /\ m \in a .. c
  BY <1>2, <1>7, <1>10, <1>11
<1>13. \A j \in a + 1 .. m - 1 : ~ Target(j)
  <2> SUFFICES ASSUME NEW j \in a + 1 .. m - 1, Target(j)  PROVE FALSE
    OBVIOUS
  <2>1. DOMAIN S = 1 .. Len(S) /\ Len(S) \in Nat  BY <1>1
  <2>2. a \in 1 .. Len(S) /\ m \in 1 .. Len(S)  BY <1>4, <1>12, <2>1
  <2>5. j \in 1 .. Len(S) /\ a < j /\ j < m
    <3> HIDE DEF S
    <3>1. a \in Nat /\ m \in Nat /\ j \in a + 1 .. m - 1 /\ Len(S) \in Nat  BY <2>1, <2>2
    <3> QED  BY <2>2, <3>1
  <2>3. j \in later  BY <2>1, <2>5
  <2>4. m <= j  BY <1>11, <2>3
  <2> QED  BY <2>2, <2>4, <2>5
<1>14. ~ Below(S[a], S[m])
  BY <1>9, <1>12, <1>13 DEF SpecIsValid, Target
<1>15. Below(S[a], S[m])  BY <1>7, <1>12
<1> QED  BY <1>14, <1>15

(* The entries that have been linked stay linked. *)
LinkedStay ==
  tool.pc = "link" =>
    \A i \in DOMAIN tool.spec : i <= tool.linked =>
      Subtree(tool.tree, tool.spec[i].to) = Subtree(tool.base, tool.spec[i].from)

LEMMA LinkedStayLinked ==
  ASSUME PathsFollow, McpInv, LinkedStay, LinkEntry  PROVE LinkedStay'
<1> DEFINE k == tool.linked + 1  e == tool.spec[k]  n == Subtree(tool.base, e.from)
<1>1. /\ ToolOK(tool) /\ tool.pc = "link" /\ k \in DOMAIN tool.spec
      /\ e.to \in McpPaths /\ e.from \in McpPaths /\ IsTree(n)
      /\ \/ tool' = NoTool
         \/ /\ ToolOK(tool') /\ tool'.pc = "link" /\ tool'.base = tool.base /\ tool'.spec = tool.spec
            /\ tool'.linked = k /\ tool'.tree = Graft(tool.tree, e.to, n)
  BY LinkEntryIs
<1>2. CASE tool' = NoTool  BY <1>2 DEF LinkedStay, NoTool
<1>3. CASE /\ tool'.base = tool.base /\ tool'.spec = tool.spec
           /\ tool'.linked = k /\ tool'.tree = Graft(tool.tree, e.to, n)
  <2>1. TransferOK(tool)  BY <1>1 DEF ToolOK
  <2>2. /\ DOMAIN tool.tree \subseteq McpPaths /\ DOMAIN tool.base \subseteq McpPaths
        /\ DOMAIN n \subseteq McpPaths
    BY <1>1, TreeIs DEF ToolOK
  <2>3. Function(n)  BY <1>1, <2>2, SubtreeIs DEF Function
  <2> HIDE DEF n
  <2>4. Subtree(tool'.tree, e.to) = n  BY <1>1, <1>3, <2>2, <2>3, GraftThere
  <2>5. ASSUME NEW i \in DOMAIN tool.spec, i <= tool.linked
        PROVE  Subtree(tool'.tree, tool.spec[i].to) = Subtree(tool.base, tool.spec[i].from)
    <3>1. /\ tool.linked \in 0 .. Len(tool.spec) /\ Len(tool.spec) \in Nat
          /\ DOMAIN tool.spec = 1 .. Len(tool.spec)
      BY <2>1, PathsAre DEF TransferOK
    <3>2. i # k  BY <2>5, <3>1
    <3>3. tool.spec[i].to \in McpPaths  BY <2>1, PathsAre DEF TransferOK
    <3>4. ~ Below(tool.spec[i].to, e.to) /\ ~ Below(e.to, tool.spec[i].to)
      BY <1>1, <2>1, <3>2, ValidApart DEF TransferOK
    <3>5. Subtree(Graft(tool.tree, e.to, n), tool.spec[i].to) = Subtree(tool.tree, tool.spec[i].to)
      <4>1. e.to \in McpPaths  BY <1>1
      <4> HIDE DEF e
      <4> QED  BY <2>2, <3>3, <3>4, <4>1, GraftElsewhere
    <3>6. Subtree(tool.tree, tool.spec[i].to) = Subtree(tool.base, tool.spec[i].from)
      BY <1>1, <2>5 DEF LinkedStay
    <3>7. tool'.tree = Graft(tool.tree, e.to, n)  BY <1>3
    <3> QED  BY <3>5, <3>6, <3>7
  <2>6. \A i \in DOMAIN tool.spec : i <= k => i <= tool.linked \/ i = k
    <3>1. tool.linked \in 0 .. Len(tool.spec) /\ DOMAIN tool.spec = 1 .. Len(tool.spec)
      BY <2>1, PathsAre DEF TransferOK
    <3> QED  BY <3>1
  <2> QED  BY <1>3, <2>4, <2>5, <2>6 DEF LinkedStay, n
<1> QED  BY <1>1, <1>2, <1>3

LEMMA LinkedStayNext ==
  ASSUME PathsFollow, McpInv, LinkedStay, [McpNext]_mcpVars  PROVE LinkedStay'
<1>1. CASE LinkEntry  BY <1>1, LinkedStayLinked
<1>2. CASE \E rec \in McpRecords, spec \in TransferSpecs, mode \in {"replace", "fail_if_exists"} :
             StartTransfer(rec, spec, mode)
  <2>1. PICK rec \in McpRecords, spec \in TransferSpecs, mode \in {"replace", "fail_if_exists"} :
          StartTransfer(rec, spec, mode)
    BY <1>2
  <2>2. \/ tool' = tool
        \/ /\ tool'.linked = 0 /\ tool'.spec = spec
    BY <2>1 DEF StartTransfer, NoTool
  <2>3. \A i \in DOMAIN spec : ~ (i <= 0)
    <3>1. DOMAIN spec = 1 .. Len(spec)  BY PathsAre
    <3> QED  BY <3>1
  <2> QED  BY <2>2, <2>3 DEF LinkedStay
<1>3. CASE UNCHANGED tool  BY <1>3 DEF LinkedStay
<1>4. ASSUME tool'.pc # "link"  PROVE LinkedStay'  BY <1>4 DEF LinkedStay
<1>5. ASSUME NEW w, NEW rest, Continue(w, rest), rest.pc \in {"run", "match"}, Shaped(rest)
      PROVE  tool'.pc # "link"
  <2>1. CASE w.failed  BY <1>5, <2>1 DEF Continue, FailMcp, NoTool
  <2>2. CASE ~ w.failed
    <3>1. tool' = [rest EXCEPT !.tree = w.tree, !.tombs = w.tombs, !.silent = w.silent]
      BY <1>5, <2>2 DEF Continue
    <3> QED  BY <1>5, <3>1 DEF Shaped, Function, ToolFields
  <2> QED  BY <2>1, <2>2
<1>6. Shaped(tool)  BY DEF McpInv, ToolOK
<1>7. ASSUME NEW p, NEW n, RunPut(p, n)  PROVE tool'.pc # "link"
  <2>1. Continue(PutAt(Work(tool), p, n), [tool EXCEPT !.ran = @ + 1]) /\ tool.pc = "run"
    BY <1>7 DEF RunPut, MayRun
  <2>2. Shaped([tool EXCEPT !.ran = @ + 1]) /\ [tool EXCEPT !.ran = @ + 1].pc = tool.pc
    BY <1>6 DEF Shaped, Function, ToolFields
  <2> QED  BY <1>5, <2>1, <2>2
<1>8. ASSUME NEW p, ApplyMatch(p)  PROVE tool'.pc # "link"
  <2> DEFINE last == [tool EXCEPT !.pc = "run", !.command = "none", !.todo = {}, !.start = EmptyTree]
             more == [tool EXCEPT !.todo = @ \ {p}]
  <2>1. Continue(MatchAt(Work(tool), tool.command, p, tool.start), IF tool.todo = {p} THEN last ELSE more)
        /\ tool.pc = "match"
    BY <1>8 DEF ApplyMatch
  <2>2. Shaped(last) /\ last.pc = "run" /\ Shaped(more) /\ more.pc = tool.pc
    BY <1>6 DEF Shaped, Function, ToolFields
  <2> QED  BY <1>5, <2>1, <2>2
<1>9. ASSUME NEW c, RunPattern(c)  PROVE tool'.pc # "link"
  BY <1>6, <1>9 DEF RunPattern, Shaped, Function, ToolFields
<1>10. ASSUME NEW p, CreateMcpBranch(p)  PROVE tool'.pc # "link"
  BY <1>10 DEF CreateMcpBranch, NoTool
<1>11. ASSUME NEW name, NEW rec, CallMcp(name, rec)  PROVE tool'.pc # "link"
  BY <1>11 DEF CallMcp, NoTool
<1>12. ASSUME GetRootForMcpWrite  PROVE tool'.pc # "link"
  <2> DEFINE r == mroot[tool.rec]
  <2>1. \/ tool' = NoTool \/ tool' = [tool EXCEPT !.pc = "empty"]
        \/ tool' = [tool EXCEPT !.pc = "run", !.base = r, !.tree = r]
    BY <1>12 DEF GetRootForMcpWrite, FailMcp
  <2> HIDE DEF r
  <2>2. NoTool.pc # "link"  BY DEF NoTool
  <2> QED  BY <1>6, <2>1, <2>2 DEF Shaped, Function, ToolFields
<1>13. ASSUME SetMcpEmpty  PROVE tool'.pc # "link"
  BY <1>6, <1>13 DEF SetMcpEmpty, Shaped, Function, ToolFields
<1>14. ASSUME CommitMcp \/ SetTransferred \/ SetMcpMount  PROVE tool'.pc # "link"
  BY <1>14 DEF CommitMcp, SetTransferred, SetMcpMount, NoTool
<1>15. ASSUME NEW rec, CloseMcpBranch(rec) \/ \E t \in StartTrees : ForeignRoot(rec, t)
       PROVE  UNCHANGED tool
  BY <1>15 DEF CloseMcpBranch, ForeignRoot
<1>16. UNCHANGED mcpVars => UNCHANGED tool  BY DEF mcpVars
<1> QED
  BY <1>1, <1>2, <1>3, <1>4, <1>7, <1>8, <1>9, <1>10, <1>11, <1>12, <1>13, <1>14, <1>15, <1>16
     DEF McpNext

(* Where the paths below a path follow it, what validateTransferSpec accepts has  *)
(* no target above another, though it compares neighbours only.                  *)
THEOREM TargetsStayApart ==
  ASSUME PathsFollow  PROVE McpSpec => []TargetsApart
<1>1. McpInv => TargetsApart
  BY ValidApart DEF McpInv, ToolOK, TransferOK, TargetsApart
<1> QED  BY <1>1, McpInvAlways, PTL

LEMMA TransfersAreWhole ==
  ASSUME McpInv, LinkedStay, SetTransferred, mroot' # mroot, NEW i \in DOMAIN tool.spec
  PROVE  Subtree(mroot'[tool.rec], tool.spec[i].to) = Subtree(tool.base, tool.spec[i].from)
<1>1. ToolOK(tool) /\ tool.pc = "link" /\ tool.linked = Len(tool.spec)
      /\ mroot' = [mroot EXCEPT ![tool.rec] = tool.tree]
  BY DEF McpInv, SetTransferred
<1>2. mroot'[tool.rec] = tool.tree
  <2>1. DOMAIN mroot = McpRecords  BY DEF McpInv
  <2> QED  BY <1>1, <2>1 DEF ToolOK
<1>3. i <= tool.linked
  <2>1. tool.spec \in TransferSpecs  BY <1>1 DEF ToolOK, TransferOK
  <2>2. DOMAIN tool.spec = 1 .. Len(tool.spec)  BY <2>1, PathsAre
  <2> QED  BY <1>1, <2>2
<1> QED  BY <1>1, <1>2, <1>3 DEF LinkedStay

(* Where the paths below a path follow it, the tools lose no file without a word, *)
(* and a transfer that sets the root leaves each target with its source: no link *)
(* of executeTransfer drops what an earlier one has brought.                     *)
THEOREM ToolsKeep ==
  ASSUME PathsFollow  PROVE McpSpec => ToolsKeepFiles
<1> DEFINE Whole == SetTransferred /\ mroot' # mroot =>
       \A i \in DOMAIN tool.spec :
         Subtree(mroot'[tool.rec], tool.spec[i].to) = Subtree(tool.base, tool.spec[i].from)
<1>1. McpInit => LinkedStay  BY DEF McpInit, NoTool, LinkedStay
<1>2. McpInv /\ LinkedStay /\ [McpNext]_mcpVars => LinkedStay'  BY LinkedStayNext
<1>3. McpSpec => []LinkedStay  BY <1>1, <1>2, McpInvAlways, PTL DEF McpSpec
<1>4. McpInv /\ LinkedStay => Whole  BY TransfersAreWhole
<1> HIDE DEF Whole
<1>5. McpSpec => [][Whole]_mcpVars  BY <1>3, <1>4, McpInvAlways, PTL
<1>6. McpSpec => TransferLinksAll  BY <1>5 DEF Whole, TransferLinksAll
<1> QED  BY <1>6, ToolsTellWhatTheyLose DEF ToolsKeepFiles

=============================================================================
