------------------------------- MODULE Grants -------------------------------
(***************************************************************************)
(* Delegates: how a client comes by a token pair, renews it and loses it.  *)
(* A pair (access and refresh token) is a number, in the order of minting; *)
(* a delegate is the number of its first pair.  Two issuers share the      *)
(* grant table: the delegate routes of a cell, and the OAuth server with   *)
(* its consent page.  Each keeps its codes in the memory of its process.   *)
(***************************************************************************)
EXTENDS Naturals, Sequences

CONSTANTS
  Consents,     \* ids of consent sessions
  Handlers,     \* requests that can be in flight at once
  Dynamo,       \* whether the table is DynamoDB's, or the map in memory
  MaxPairs      \* bound on the pairs of a behaviour

ASSUME GrantsAssumption == Dynamo \in BOOLEAN /\ MaxPairs \in Nat \ {0}

VARIABLES
  minted,    \* per pair: its delegate (0: the pair is Cognito's) and its issuer
  row,       \* per delegate: the pair whose hashes its row holds, 0 if it has no row
  codes,     \* the codes of both issuers, each the pair it stands for
  consents,  \* pendingConsents
  asked,     \* the consent ids given out
  aged,      \* the codes and consents that are past their time to live
  call,      \* the requests in flight
  handed,    \* how often each pair was answered
  revoked,   \* delegates that were revoked
  overtaken  \* those of them that a refresh in flight had read before

grantVars == <<minted, row, codes, consents, asked, aged, call, handed, revoked, overtaken>>

Pairs == 1..MaxPairs
Issuers == {"delegates", "oauth", "direct"}
NoCall == [pc |-> "none", pair |-> 0, delegate |-> 0]

Mint(d, issuer) ==
  /\ Len(minted) < MaxPairs
  /\ minted' = Append(minted, [delegate |-> d, by |-> issuer])

NewPair == Len(minted) + 1

(* Lapsed codes and consents go whenever a handler looks at them. *)
Sweep(entries) == entries \ aged

GrantsInit ==
  /\ minted = <<>> /\ row = [d \in Pairs |-> 0]
  /\ codes = {} /\ consents = {} /\ asked = {} /\ aged = {}
  /\ call = [q \in Handlers |-> NoCall]
  /\ handed = [p \in Pairs |-> 0] /\ revoked = {} /\ overtaken = {}

Free(q) == call[q].pc = "none"
CallAt(q, s) == call[q].pc = s
Becomes(q, s, p, d) == call' = [call EXCEPT ![q] = [pc |-> s, pair |-> p, delegate |-> d]]
Done(q) == call' = [call EXCEPT ![q] = NoCall]
Hand(p) == handed' = [handed EXCEPT ![p] = @ + 1]

(* verifyDelegateToken: the access token of pair p is accepted. *)
Accepts(p) == minted[p].delegate # 0 /\ row[minted[p].delegate] = p

-----------------------------------------------------------------------------
(* handleCallback: a login ends in a consent page or in a code for the user's tokens. *)
AskConsent(s) ==
  /\ s \notin asked
  /\ asked' = asked \union {s}
  /\ consents' = Sweep(consents) \union {s} /\ codes' = Sweep(codes)
  /\ UNCHANGED <<minted, row, aged, call, handed, revoked, overtaken>>

UserCode ==
  /\ Mint(0, "oauth")
  /\ codes' = Sweep(codes) \union {NewPair} /\ consents' = Sweep(consents)
  /\ UNCHANGED <<row, asked, aged, call, handed, revoked, overtaken>>

Deny(s) ==
  /\ s \in consents
  /\ consents' = Sweep(consents) \ {s} /\ codes' = Sweep(codes)
  /\ UNCHANGED <<minted, row, asked, aged, call, handed, revoked, overtaken>>

(* approveConsent takes the consent before its first await. *)
Approve(q, s) ==
  /\ Free(q) /\ s \in Sweep(consents)
  /\ Mint(NewPair, "oauth")
  /\ consents' = Sweep(consents) \ {s} /\ codes' = Sweep(codes)
  /\ Becomes(q, "insert", NewPair, NewPair)
  /\ UNCHANGED <<row, asked, aged, handed, revoked, overtaken>>

(* The authorize route, and the route that creates a delegate without a code *)
Create(q, issuer) ==
  /\ Free(q) /\ issuer \in {"delegates", "direct"}
  /\ Mint(NewPair, issuer)
  /\ Becomes(q, "insert", NewPair, NewPair)
  /\ UNCHANGED <<row, codes, consents, asked, aged, handed, revoked, overtaken>>

Insert(q) ==
  /\ CallAt(q, "insert")
  /\ row' = [row EXCEPT ![call[q].delegate] = call[q].pair]
  /\ Becomes(q, "answer", call[q].pair, call[q].delegate)
  /\ UNCHANGED <<minted, codes, consents, asked, aged, handed, revoked, overtaken>>

(* After the insert: a code is set for the pair, or the pair is answered. *)
Answer(q) ==
  /\ CallAt(q, "answer")
  /\ LET p == call[q].pair
     IN  IF minted[p].by = "direct" \/ minted[p].delegate # p
         THEN Hand(p) /\ UNCHANGED codes
         ELSE codes' = codes \union {p} /\ UNCHANGED handed
  /\ Done(q)
  /\ UNCHANGED <<minted, row, consents, asked, aged, revoked, overtaken>>

-----------------------------------------------------------------------------
(* The delegate routes read a code, await the verifier's hash, then delete it. *)
Look(q, p) ==
  /\ Free(q) /\ p \in Sweep(codes) /\ minted[p].by = "delegates"
  /\ codes' = Sweep(codes)
  /\ Becomes(q, "verify", p, 0)
  /\ UNCHANGED <<minted, row, consents, asked, aged, handed, revoked, overtaken>>

(* handleToken deletes a code as it reads it, in one step; a plausible bug is   *)
(* to delete it when the verifier has been checked.                             *)
TakeLate(q, p) ==
  /\ Free(q) /\ p \in Sweep(codes) /\ minted[p].by = "oauth"
  /\ codes' = Sweep(codes) /\ consents' = Sweep(consents)
  /\ Becomes(q, "verify", p, 0)
  /\ UNCHANGED <<minted, row, asked, aged, handed, revoked, overtaken>>

Take(q, p) ==
  /\ Free(q) /\ p \in Sweep(codes) /\ minted[p].by = "oauth"
  /\ codes' = Sweep(codes) \ {p} /\ consents' = Sweep(consents)
  /\ Becomes(q, "verify", p, 0)
  /\ UNCHANGED <<minted, row, asked, aged, handed, revoked, overtaken>>

Verified(q) ==
  /\ CallAt(q, "verify")
  /\ codes' = codes \ {call[q].pair}
  /\ Hand(call[q].pair) /\ Done(q)
  /\ UNCHANGED <<minted, row, consents, asked, aged, revoked, overtaken>>

(* A wrong verifier; a code that was taken is gone with it. *)
Rejected(q) ==
  /\ CallAt(q, "verify")
  /\ Done(q)
  /\ UNCHANGED <<minted, row, codes, consents, asked, aged, handed, revoked, overtaken>>

-----------------------------------------------------------------------------
(* A client that was given pair p refreshes: the row is read and must hold p. *)
Refresh(q, p) ==
  /\ Free(q) /\ handed[p] > 0 /\ Accepts(p)
  /\ Mint(minted[p].delegate, minted[p].by)
  /\ Becomes(q, "get", NewPair, minted[p].delegate)
  /\ UNCHANGED <<row, codes, consents, asked, aged, handed, revoked, overtaken>>

(* updateTokens: the map changes at once, and not at all without the grant; the *)
(* table reads the row and puts it back changed.                                *)
UpdateGet(q) ==
  /\ CallAt(q, "get")
  /\ LET d == call[q].delegate
         p == call[q].pair
     IN  IF row[d] = 0 /\ Dynamo
         THEN Done(q) /\ UNCHANGED row
         ELSE /\ Becomes(q, IF Dynamo THEN "put" ELSE "answer", p, d)
              /\ row' = IF Dynamo \/ row[d] = 0 THEN row ELSE [row EXCEPT ![d] = p]
  /\ UNCHANGED <<minted, codes, consents, asked, aged, handed, revoked, overtaken>>

UpdatePut(q) ==
  /\ CallAt(q, "put")
  /\ row' = [row EXCEPT ![call[q].delegate] = call[q].pair]
  /\ Becomes(q, "answer", call[q].pair, call[q].delegate)
  /\ UNCHANGED <<minted, codes, consents, asked, aged, handed, revoked, overtaken>>

(* revoke: the delegate is in the list of its user; a plausible bug is to       *)
(* remove it only when the list shows it with the pair of now.                  *)
RevokeFind(q, d) ==
  /\ Free(q) /\ row[d] # 0
  /\ Becomes(q, "remove", row[d], d)
  /\ UNCHANGED <<minted, row, codes, consents, asked, aged, handed, revoked, overtaken>>

RevokeRemoveSame(q) ==
  /\ CallAt(q, "remove")
  /\ LET d == call[q].delegate
     IN  /\ row' = IF row[d] = call[q].pair THEN [row EXCEPT ![d] = 0] ELSE row
         /\ revoked' = revoked \union {d}
         /\ overtaken' = IF \E r \in Handlers : CallAt(r, "put") /\ call[r].delegate = d
                         THEN overtaken \union {d} ELSE overtaken
  /\ Done(q)
  /\ UNCHANGED <<minted, codes, consents, asked, aged, handed>>

RevokeRemove(q) ==
  /\ CallAt(q, "remove")
  /\ LET d == call[q].delegate
     IN  /\ row' = [row EXCEPT ![d] = 0]
         /\ revoked' = revoked \union {d}
         /\ overtaken' = IF \E r \in Handlers : CallAt(r, "put") /\ call[r].delegate = d
                         THEN overtaken \union {d} ELSE overtaken
  /\ Done(q)
  /\ UNCHANGED <<minted, codes, consents, asked, aged, handed>>

(* A call of the table fails, or the process ends, while it handles q. *)
CallFails(q) ==
  /\ ~Free(q)
  /\ Done(q)
  /\ UNCHANGED <<minted, row, codes, consents, asked, aged, handed, revoked, overtaken>>

(* A code or a consent passes its time to live. *)
Ages(x) ==
  /\ x \in (codes \union consents) \ aged
  /\ aged' = aged \union {x}
  /\ UNCHANGED <<minted, row, codes, consents, asked, call, handed, revoked, overtaken>>

GrantsNext ==
  \/ \E s \in Consents : AskConsent(s) \/ Deny(s)
  \/ UserCode
  \/ \E x \in codes \union consents : Ages(x)
  \/ \E q \in Handlers :
       \/ \E s \in Consents : Approve(q, s)
       \/ \E issuer \in Issuers : Create(q, issuer)
       \/ \E p \in codes : Look(q, p) \/ Take(q, p)
       \/ \E p \in DOMAIN minted : Refresh(q, p) \/ RevokeFind(q, p)
       \/ Insert(q) \/ Answer(q) \/ Verified(q) \/ Rejected(q) \/ UpdateGet(q) \/ UpdatePut(q)
       \/ RevokeRemove(q) \/ CallFails(q)

GrantsSpec == GrantsInit /\ [][GrantsNext]_grantVars

-----------------------------------------------------------------------------
(* The types of the variables *)
GrantsTypeOK ==
  /\ minted \in Seq([delegate : 0..MaxPairs, by : Issuers]) /\ Len(minted) <= MaxPairs
  /\ row \in [Pairs -> 0..MaxPairs]
  /\ codes \subseteq Pairs /\ consents \subseteq asked /\ asked \subseteq Consents
  /\ aged \subseteq Pairs \union Consents
  /\ call \in [Handlers -> [pc : {"none", "insert", "answer", "verify", "get", "put", "remove"},
                            pair : 0..MaxPairs, delegate : 0..MaxPairs]]
  /\ handed \in [Pairs -> Nat]
  /\ revoked \subseteq Pairs /\ overtaken \subseteq revoked

(* A code of the OAuth server is for one use: however its requests interleave,  *)
(* the tokens it stands for are answered at most once.  (The delegate routes    *)
(* read a code and delete it later, and make no such promise.)                  *)
CodesAreForOneUse ==
  \A p \in DOMAIN minted :
    (minted[p].by = "oauth" /\ minted[p].delegate \in {0, p}) => handed[p] <= 1

(* A delegate that was revoked accepts no token any more, unless a refresh had  *)
(* read its row before the revocation and put it back after.                    *)
RevokedIsDead == \A d \in revoked \ overtaken : row[d] = 0
=============================================================================
