--------------------------- MODULE AuthServiceProofs ---------------------------
(* What the console was told is in the vault, the vault is whole, and the    *)
(* service spoils no credential of its own, for any number of calls.         *)
EXTENDS AuthService, FiniteSetTheorems, TLAPS

Saving == {"saving", "closing", "closing failed"}

(* The chain of saves holds calls that await one, each once, and a running   *)
(* save is the first one's.                                                  *)
Chain ==
  /\ \A i \in DOMAIN queue : pc[queue[i]] \in Saving
  /\ \A i, j \in DOMAIN queue : queue[i] = queue[j] => i = j
  /\ sealed # Nothing => queue # <<>> /\ temp \in {Torn, sealed}

(* No copy of the data is ahead of the provider.  There is one refresh at a  *)
(* time, and unless there is an excuse memory holds the live token, or is    *)
(* about to.                                                                 *)
Behind(d) == d \in Data => d.token <= live /\ (d.revoked = "provider" => excused)

Copied == Behind(memory) /\ Behind(vault) /\ Behind(temp) /\ Behind(sealed)

InStep ==
  /\ \A c \in Calls : token[c] <= live
  /\ \A c, d \in Refreshing : c = d
  /\ excused \/ memory.token = live \/ \E c \in Calls : pc[c] = "granted"
  /\ \A c \in Calls :
       /\ pc[c] = "sent" => token[c] = memory.token
       /\ pc[c] = "granted" => token[c] = live
       /\ pc[c] = "refused" => excused

(* What a call that asked for o, and holds token t, is told of: in a copy of *)
(* the data.                                                                 *)
Kept(o, t, c, d) ==
  /\ o = "revoke"  => d.revoked # "no"
  /\ o = "refresh" => d.token >= t
  /\ o = "check"   => c \notin d.open

(* The next save of the call is the one it is answered by. *)
Due(c) == pc[c] = "closing" \/ (pc[c] = "saving" /\ op[c] # "check")

(* What is acknowledged is in memory, in the vault and in the save that     *)
(* runs; what is due is in memory, and in the save that is its own.         *)
Ack(c) ==
  /\ pc[c] \in {"sent", "joined", "granted", "refused"} => op[c] = "refresh"
  /\ pc[c] = "probing" => op[c] = "check"
  /\ pc[c] = "ok" => /\ Kept(op[c], token[c], c, memory) /\ Kept(op[c], token[c], c, vault)
                     /\ sealed # Nothing => Kept(op[c], token[c], c, sealed)
  /\ Due(c) => Kept(op[c], token[c], c, memory)
  /\ Due(c) /\ sealed # Nothing /\ queue[1] = c => Kept(op[c], token[c], c, sealed)

Acks == \A c \in Calls : Ack(c)

Inv == TypeOK /\ Chain /\ Copied /\ InStep /\ Acks

-----------------------------------------------------------------------------
(* The calls that joined a refresh, in some order, are a queue of their own. *)
LEMMA JoinedInOrder ==
  ASSUME NEW others \in Orders(Joined)
  PROVE  /\ others \in Seq(Calls)
         /\ \A i \in DOMAIN others : others[i] \in Joined
         /\ \A i, j \in DOMAIN others : others[i] = others[j] => i = j
<1>1. Joined \subseteq Calls
  BY DEF Joined
<1>2. Cardinality(Joined) \in Nat
  BY <1>1, AuthServiceAssumption, FS_Subset, FS_CardinalityType
<1>3. others \in [1 .. Cardinality(Joined) -> Joined]
      /\ \A i, j \in DOMAIN others : others[i] = others[j] => i = j
  BY DEF Orders
<1> QED BY <1>1, <1>2, <1>3

(* What the operations change in the data, and what they leave. *)
LEMMA DataFields ==
  ASSUME NEW m \in Data
  PROVE  m.token \in Nat /\ m.revoked \in {"no", "caller", "provider"} /\ m.open \in SUBSET Calls
  BY DEF Data, Tokens

LEMMA TokenSet ==
  ASSUME NEW m \in Data, NEW t \in Nat, NEW n, n = [m EXCEPT !.token = t]
  PROVE  n \in Data /\ n.token = t /\ n.revoked = m.revoked /\ n.open = m.open
  BY DEF Data, Tokens

LEMMA RevokedSet ==
  ASSUME NEW m \in Data, NEW r \in {"no", "caller", "provider"}, NEW n,
         n = [m EXCEPT !.revoked = r]
  PROVE  n \in Data /\ n.token = m.token /\ n.revoked = r /\ n.open = m.open
  BY DEF Data, Tokens

LEMMA OpenSet ==
  ASSUME NEW m \in Data, NEW s \in SUBSET Calls, NEW n, n = [m EXCEPT !.open = s]
  PROVE  n \in Data /\ n.token = m.token /\ n.revoked = m.revoked /\ n.open = s
  BY DEF Data, Tokens

LEMMA Queued ==
  ASSUME NEW q \in Seq(Calls), NEW c \in Calls
  PROVE  /\ Append(q, c) \in Seq(Calls)
         /\ Len(Append(q, c)) = Len(q) + 1
         /\ Append(q, c)[Len(q) + 1] = c
         /\ \A i \in DOMAIN q : Append(q, c)[i] = q[i]
  OBVIOUS

LEMMA FrontSaves ==
  ASSUME TypeOK, Chain, queue # <<>>
  PROVE  Head(queue) \in Calls /\ Head(queue) = queue[1] /\ pc[Head(queue)] \in Saving
<1>1. queue \in Seq(Calls)
  BY DEF TypeOK
<1>2. 1 \in DOMAIN queue /\ Head(queue) = queue[1]
  BY <1>1
<1> QED BY <1>1, <1>2 DEF Chain

LEMMA InitInv == Init => Inv
<1> SUFFICES ASSUME Init PROVE Inv
  OBVIOUS
<1>1. memory \in Data /\ memory.token = 0 /\ memory.revoked = "no"
  BY DEF Init, Data, Tokens
<1>2. TypeOK
  <2>1. pc \in [Calls -> Stages] /\ op \in [Calls -> Ops \cup {Nothing}]
        /\ token \in [Calls -> Tokens]
    BY DEF Init, Stages, Tokens
  <2>2. queue \in Seq(Calls)
    BY DEF Init
  <2>3. crashes \in 0 .. MaxCrashes
    BY AuthServiceAssumption DEF Init
  <2> QED BY <1>1, <2>1, <2>2, <2>3 DEF Init, TypeOK, Tokens
<1>3. Chain
  BY DEF Init, Chain
<1>4. Copied
  BY <1>1, AuthServiceAssumption DEF Init, Copied, Behind
<1>5. InStep
  BY <1>1 DEF Init, InStep, Refreshing
<1>6. Acks
  BY DEF Init, Acks, Ack, Due
<1> QED BY <1>2, <1>3, <1>4, <1>5, <1>6 DEF Inv

-----------------------------------------------------------------------------
(* What each action does to memory. *)
LEMMA RevokeMemory ==
  ASSUME memory \in Data, NEW c \in Calls, Revoke(c)
  PROVE  /\ memory' \in Data /\ memory'.token = memory.token
         /\ memory'.revoked # "no" /\ memory'.open = {}
         /\ memory'.revoked = "provider" => memory.revoked = "provider"
<1> DEFINE r == IF memory.revoked = "no" THEN "caller" ELSE memory.revoked
<1> DEFINE m == [memory EXCEPT !.revoked = r]
<1>1. memory' = [m EXCEPT !.open = {}]
  BY DEF Revoke, Data
<1>2. r \in {"no", "caller", "provider"} /\ r # "no"
      /\ (r = "provider" => memory.revoked = "provider")
  BY DataFields
<1> HIDE DEF r
<1>3. m \in Data /\ m.token = memory.token /\ m.revoked = r
  BY <1>2, RevokedSet
<1> HIDE DEF m
<1>4. {} \in SUBSET Calls
  OBVIOUS
<1>5. /\ memory' \in Data /\ memory'.token = m.token
      /\ memory'.revoked = m.revoked /\ memory'.open = {}
  BY <1>1, <1>3, <1>4, OpenSet
<1> QED BY <1>2, <1>3, <1>5

LEMMA GrantClosed ==
  ASSUME memory \in Data, NEW c, memory' = [memory EXCEPT !.open = @ \ {c}]
  PROVE  /\ memory' \in Data /\ memory'.token = memory.token
         /\ memory'.revoked = memory.revoked /\ memory'.open = memory.open \ {c}
<1>1. (memory.open \ {c}) \in SUBSET Calls
  BY DataFields
<1> QED BY <1>1, OpenSet

LEMMA CheckMemory ==
  ASSUME memory \in Data, NEW c \in Calls, Check(c)
  PROVE  /\ memory' \in Data /\ memory'.token = memory.token
         /\ memory'.revoked = memory.revoked /\ memory'.open \subseteq memory.open \cup {c}
<1> DEFINE s == memory.open \cup {c}
<1>1. memory' = memory \/ memory' = [memory EXCEPT !.open = s]
  BY DEF Check
<1>2. s \in SUBSET Calls
  BY DataFields
<1> HIDE DEF s
<1>3. /\ memory' \in Data /\ memory'.token = memory.token
      /\ memory'.revoked = memory.revoked /\ (memory'.open = s \/ memory'.open = memory.open)
  BY <1>1, <1>2, OpenSet
<1> QED BY <1>3 DEF s

LEMMA RefreshedMemory ==
  ASSUME memory \in Data, NEW c \in Calls, token[c] \in Nat, Refreshed(c)
  PROVE  /\ memory' \in Data /\ memory'.token = token[c]
         /\ memory'.revoked = memory.revoked /\ memory'.open = memory.open
<1>1. memory' = [memory EXCEPT !.token = token[c]]
  BY DEF Refreshed
<1> QED BY <1>1, TokenSet

LEMMA RefusedMemory ==
  ASSUME memory \in Data, NEW c \in Calls, RefreshFails(c)
  PROVE  /\ memory' \in Data /\ memory'.token = memory.token /\ memory'.open = memory.open
         /\ memory'.revoked = memory.revoked \/ memory'.revoked = "provider"
<1>1. memory' = memory \/ memory' = [memory EXCEPT !.revoked = "provider"]
  BY DEF RefreshFails
<1> QED BY <1>1, RevokedSet

(* Answering either ends the call or, for check, closes the grant and saves *)
(* again; it goes to the end of the chain.                                  *)
LEMMA AnsweredMemory ==
  ASSUME memory \in Data, NEW c \in Calls, NEW result, Answered(c, result)
  PROVE  /\ memory' \in Data /\ memory'.token = memory.token
         /\ memory'.revoked = memory.revoked /\ memory'.open \subseteq memory.open
         /\ op[c] = "check" /\ pc[c] = "saving" => c \notin memory'.open
<1>1. CASE op[c] = "check" /\ pc[c] = "saving"
  <2>1. memory' = [memory EXCEPT !.open = @ \ {c}]
    BY <1>1 DEF Answered
  <2> QED BY <2>1, GrantClosed
<1>2. CASE ~(op[c] = "check" /\ pc[c] = "saving")
  BY <1>2 DEF Answered
<1> QED BY <1>1, <1>2

-----------------------------------------------------------------------------
(* The variables keep their types. *)
LEMMA AnsweredType ==
  ASSUME TypeOK, queue # <<>>, NEW result \in {"ok", "failed"},
         Answered(Head(queue), result),
         UNCHANGED <<op, token, live, crashes, excused>>,
         vault' \in Data \cup {Torn}, temp' \in Data \cup {Torn, Nothing}
  PROVE  TypeOK'
<1>1. queue \in Seq(Calls) /\ Head(queue) \in Calls /\ Tail(queue) \in Seq(Calls)
  BY DEF TypeOK
<1>2. queue' \in Seq(Calls)
  <2>1. queue' = Tail(queue) \/ queue' = Append(Tail(queue), Head(queue))
    BY DEF Answered
  <2> QED BY <1>1, <2>1, Queued
<1>3. memory' \in Data
  BY <1>1, AnsweredMemory DEF TypeOK
<1>4. pc' \in [Calls -> Stages]
  BY <1>1 DEF Answered, Go, TypeOK, Stages, Ended
<1> QED BY <1>2, <1>3, <1>4 DEF TypeOK, Answered

LEMMA TypeStep == TypeOK /\ [Next]_vars => TypeOK'
<1> SUFFICES ASSUME TypeOK, [Next]_vars PROVE TypeOK'
  OBVIOUS
<1>0. memory \in Data
  BY DEF TypeOK
<1>1. ASSUME NEW c \in Calls, Refresh(c) PROVE TypeOK'
  <2>1. pc' \in [Calls -> Stages] /\ op' \in [Calls -> Ops \cup {Nothing}]
    BY <1>1 DEF Refresh, Asks, Go, TypeOK, Stages, Ended, Ops
  <2>2. token' \in [Calls -> Tokens]
    BY <1>0, <1>1, DataFields DEF Refresh, TypeOK, Tokens
  <2> QED BY <1>1, <2>1, <2>2 DEF Refresh, TypeOK, disk
<1>2. ASSUME NEW c \in Calls, Revoke(c) PROVE TypeOK'
  <2>1. pc' \in [Calls -> Stages] /\ op' \in [Calls -> Ops \cup {Nothing}]
    BY <1>2 DEF Revoke, Asks, Go, TypeOK, Stages, Ops
  <2>2. memory' \in Data /\ queue' \in Seq(Calls)
    BY <1>0, <1>2, RevokeMemory DEF Revoke, TypeOK
  <2> QED BY <1>2, <2>1, <2>2 DEF Revoke, TypeOK
<1>3. ASSUME NEW c \in Calls, Check(c) PROVE TypeOK'
  <2>1. pc' \in [Calls -> Stages] /\ op' \in [Calls -> Ops \cup {Nothing}]
    BY <1>3 DEF Check, Asks, Go, TypeOK, Stages, Ended, Ops
  <2>2. memory' \in Data
    BY <1>0, <1>3, CheckMemory
  <2> QED BY <1>3, <2>1, <2>2 DEF Check, TypeOK, disk
<1>4. ASSUME NEW c \in Calls, Provider(c) PROVE TypeOK'
  <2>1. pc' \in [Calls -> Stages]
    BY <1>4 DEF Provider, Honours, Refuses, Go, TypeOK, Stages
  <2>2. live' \in Tokens /\ token' \in [Calls -> Tokens]
    BY <1>4 DEF Provider, Honours, Refuses, TypeOK, Tokens
  <2>3. excused' \in BOOLEAN
    BY <1>4, Zenon DEF Provider, Honours, Refuses, TypeOK
  <2> QED BY <1>4, <2>1, <2>2, <2>3 DEF Provider, Honours, Refuses, TypeOK, disk
<1>5. ASSUME NEW c \in Calls, Refreshed(c) PROVE TypeOK'
  <2>1. PICK others \in Orders(Joined) : queue' = queue \o <<c>> \o others
    BY <1>5 DEF Refreshed
  <2>2. queue' \in Seq(Calls)
    BY <2>1, JoinedInOrder DEF TypeOK
  <2>3. memory' \in Data
    BY <1>0, <1>5, RefreshedMemory DEF TypeOK, Tokens
  <2>4. pc' \in [Calls -> Stages] /\ token' \in [Calls -> Tokens]
    BY <1>5 DEF Refreshed, TypeOK, Stages, Tokens
  <2> QED BY <1>5, <2>2, <2>3, <2>4 DEF Refreshed, TypeOK
<1>6. ASSUME NEW c \in Calls, RefreshFails(c) PROVE TypeOK'
  <2>1. memory' \in Data
    BY <1>0, <1>6, RefusedMemory
  <2>2. pc' \in [Calls -> Stages]
    BY <1>6 DEF RefreshFails, TypeOK, Stages, Ended
  <2> QED BY <1>6, <2>1, <2>2 DEF RefreshFails, TypeOK, disk
<1>7. ASSUME NEW c \in Calls, AnswerLost(c) PROVE TypeOK'
  <2>1. pc' \in [Calls -> Stages]
    BY <1>7 DEF AnswerLost, TypeOK, Stages, Ended
  <2>2. excused' \in BOOLEAN
    BY <1>7, Zenon DEF AnswerLost, TypeOK
  <2> QED BY <1>7, <2>1, <2>2 DEF AnswerLost, TypeOK, disk
<1>8. ASSUME NEW c \in Calls, Probed(c) PROVE TypeOK'
  <2>1. pc' \in [Calls -> Stages]
    BY <1>8 DEF Probed, Go, TypeOK, Stages
  <2> QED BY <1>8, <2>1 DEF Probed, TypeOK
<1>9. ASSUME NEW c \in Calls, ProbeFails(c) PROVE TypeOK'
  <2>1. memory' \in Data
    BY <1>0, <1>9, GrantClosed DEF ProbeFails
  <2>2. pc' \in [Calls -> Stages]
    BY <1>9 DEF ProbeFails, Go, TypeOK, Stages
  <2>3. queue \in Seq(Calls) /\ queue' = Append(queue, c)
    BY <1>9 DEF ProbeFails, TypeOK
  <2>4. queue' \in Seq(Calls)
    BY <2>3, Queued
  <2> QED BY <1>9, <2>1, <2>2, <2>4 DEF ProbeFails, TypeOK
<1>10. CASE Seal
  BY <1>10 DEF Seal, calls, TypeOK
<1>11. CASE Write
  BY <1>11 DEF Write, calls, TypeOK
<1>12. CASE Rename
  <2>1. queue # <<>>
    BY <1>12 DEF Rename
  <2> QED BY <1>12, <2>1, AnsweredType DEF Rename
<1>13. CASE SaveFails
  BY <1>13, AnsweredType DEF SaveFails, TypeOK
<1>14. CASE Crash
  <2>1. pc' \in [Calls -> Stages]
    BY <1>14 DEF Crash, TypeOK, Stages, Ended
  <2>2. crashes' \in 0 .. MaxCrashes /\ queue' \in Seq(Calls)
    BY <1>14, AuthServiceAssumption DEF Crash, TypeOK
  <2>3. excused' \in BOOLEAN
    BY <1>14, Zenon DEF Crash, TypeOK
  <2> QED BY <1>14, <2>1, <2>2, <2>3 DEF Crash, TypeOK
<1>15. CASE UNCHANGED vars
  BY <1>15 DEF vars, disk, calls, TypeOK
<1> QED
  BY <1>1, <1>2, <1>3, <1>4, <1>5, <1>6, <1>7, <1>8, <1>9, <1>10, <1>11, <1>12, <1>13,
     <1>14, <1>15 DEF Next, Hears, Checked, Save

-----------------------------------------------------------------------------
(* The chain of saves. *)
LEMMA ChainKept ==
  ASSUME TypeOK, Chain, UNCHANGED <<queue, sealed, temp>>,
         \A c \in Calls : pc[c] \in Saving => pc'[c] = pc[c]
  PROVE  Chain'
  BY DEF Chain, TypeOK

LEMMA ChainAppended ==
  ASSUME TypeOK, Chain, NEW c \in Calls, pc[c] \notin Saving,
         NEW stage \in Saving, pc' = [pc EXCEPT ![c] = stage],
         queue' = Append(queue, c), UNCHANGED <<sealed, temp>>
  PROVE  Chain'
<1>1. /\ queue \in Seq(Calls) /\ Len(queue) \in Nat /\ DOMAIN queue = 1 .. Len(queue)
      /\ queue' \in Seq(Calls) /\ Len(queue') = Len(queue) + 1
      /\ DOMAIN queue' = 1 .. Len(queue) + 1 /\ queue'[Len(queue) + 1] = c
      /\ \A i \in DOMAIN queue : queue'[i] = queue[i]
  BY Queued DEF TypeOK
<1>2. \A i \in DOMAIN queue : queue[i] \in Calls /\ queue[i] # c
  BY <1>1 DEF Chain
<1>3. pc'[c] \in Saving /\ \A d \in Calls : d # c => pc'[d] = pc[d]
  BY DEF TypeOK
<1>4. \A i \in DOMAIN queue' : i \in DOMAIN queue \/ i = Len(queue) + 1
  BY <1>1
<1>5. \A i \in DOMAIN queue' : pc'[queue'[i]] \in Saving
  BY <1>1, <1>2, <1>3, <1>4 DEF Chain
<1>6. \A i, j \in DOMAIN queue' : queue'[i] = queue'[j] => i = j
  BY <1>1, <1>2, <1>4 DEF Chain
<1>7. queue' # <<>>
  BY <1>1
<1> QED BY <1>5, <1>6, <1>7 DEF Chain

(* The first call leaves the chain, or goes to its end. *)
LEMMA ChainAnswered ==
  ASSUME TypeOK, Chain, queue # <<>>, NEW result \in {"ok", "failed"},
         Answered(Head(queue), result)
  PROVE  Chain'
<1> DEFINE c == Head(queue)
           t == Tail(queue)
<1>1. /\ queue \in Seq(Calls) /\ Len(queue) \in Nat \ {0} /\ c \in Calls /\ c = queue[1]
      /\ t \in Seq(Calls) /\ Len(t) = Len(queue) - 1
      /\ \A i \in DOMAIN t : i \in 1 .. Len(queue) - 1 /\ t[i] = queue[i + 1]
  BY DEF TypeOK
<1>2. \A i \in DOMAIN t : t[i] \in Calls /\ t[i] # c /\ pc[t[i]] \in Saving
  BY <1>1 DEF Chain
<1>3. \A i, j \in DOMAIN t : t[i] = t[j] => i = j
  BY <1>1 DEF Chain
<1>4. \A d \in Calls : d # c => pc'[d] = pc[d]
  BY <1>1 DEF Answered, Go, TypeOK
<1>5. \A i \in DOMAIN t : pc'[t[i]] \in Saving
  BY <1>2, <1>4
<1>6. sealed' = Nothing
  BY DEF Answered
<1>7. CASE queue' = t
  BY <1>3, <1>5, <1>6, <1>7 DEF Chain
<1>8. CASE queue' # t
  <2>1. queue' = Append(t, c) /\ pc'[c] \in Saving
    BY <1>1, <1>8 DEF Answered, Go, TypeOK, Saving
  <2> HIDE DEF t, c
  <2>2. /\ DOMAIN queue' = 1 .. Len(t) + 1 /\ queue'[Len(t) + 1] = c
        /\ \A i \in DOMAIN t : queue'[i] = t[i]
        /\ Len(t) \in Nat /\ DOMAIN t = 1 .. Len(t)
    BY <1>1, <2>1, Queued
  <2>3. \A i \in DOMAIN queue' : i \in DOMAIN t \/ i = Len(t) + 1
    BY <2>2
  <2>4. \A i \in DOMAIN queue' : pc'[queue'[i]] \in Saving
    BY <1>5, <2>1, <2>2, <2>3
  <2>5. \A i, j \in DOMAIN queue' : queue'[i] = queue'[j] => i = j
    BY <1>2, <1>3, <2>2, <2>3
  <2> QED BY <1>6, <2>4, <2>5 DEF Chain
<1> QED BY <1>7, <1>8

LEMMA ChainRefreshed ==
  ASSUME TypeOK, Chain, NEW c \in Calls, Refreshed(c)
  PROVE  Chain'
<1>1. PICK others \in Orders(Joined) : queue' = queue \o <<c>> \o others
  BY DEF Refreshed
<1>2. /\ others \in Seq(Calls)
      /\ \A i \in DOMAIN others : others[i] \in Joined
      /\ \A i, j \in DOMAIN others : others[i] = others[j] => i = j
  BY JoinedInOrder
<1> DEFINE n == Len(queue)
<1>3. /\ queue \in Seq(Calls) /\ n \in Nat /\ DOMAIN queue = 1 .. n
      /\ Len(others) \in Nat /\ DOMAIN others = 1 .. Len(others)
      /\ DOMAIN queue' = 1 .. n + 1 + Len(others)
      /\ \A i \in 1 .. n : queue'[i] = queue[i]
      /\ queue'[n + 1] = c
      /\ \A i \in 1 .. Len(others) : queue'[n + 1 + i] = others[i]
  BY <1>1, <1>2 DEF TypeOK
<1>4. /\ \A i \in DOMAIN queue : queue[i] \in Calls /\ pc[queue[i]] \in Saving
      /\ \A i, j \in DOMAIN queue : queue[i] = queue[j] => i = j
  BY <1>3 DEF Chain
<1>5. pc[c] \notin Saving /\ c \notin Joined
      /\ \A d \in Joined : d \in Calls /\ pc[d] \notin Saving
  BY DEF Refreshed, Joined, Saving
<1>6. \A d \in Calls : pc'[d] = IF d \in Joined \cup {c} THEN "saving" ELSE pc[d]
  BY DEF Refreshed
<1>7. ASSUME NEW i \in DOMAIN queue'
      PROVE  \/ i \in 1 .. n /\ queue'[i] = queue[i]
             \/ i = n + 1 /\ queue'[i] = c
             \/ \E k \in 1 .. Len(others) : i = n + 1 + k /\ queue'[i] = others[k]
  <2>1. CASE i \in 1 .. n
    BY <1>3, <2>1
  <2>2. CASE i = n + 1
    BY <1>3, <2>2
  <2>3. CASE i > n + 1
    <3>1. i - (n + 1) \in 1 .. Len(others) /\ i = n + 1 + (i - (n + 1))
      BY <1>3, <2>3
    <3> QED BY <1>3, <3>1
  <2> QED BY <1>3, <2>1, <2>2, <2>3
<1> HIDE DEF n
<1>8. ASSUME NEW i \in DOMAIN queue'
      PROVE  pc'[queue'[i]] \in Saving
  <2>1. CASE i \in 1 .. n
    <3>1. queue'[i] = queue[i] /\ queue[i] \in Calls /\ pc[queue[i]] \in Saving
      BY <1>3, <1>4, <2>1
    <3> QED BY <1>6, <3>1 DEF Saving
  <2>2. CASE queue'[i] \in Joined \cup {c}
    BY <1>5, <1>6, <2>2 DEF Saving
  <2> QED BY <1>2, <1>3, <1>7, <2>1, <2>2
<1>9. /\ \A i \in 1 .. n : queue[i] # c /\ queue[i] \notin Joined
      /\ \A k \in 1 .. Len(others) : others[k] # c /\ others[k] \in Joined
  BY <1>2, <1>3, <1>4, <1>5
<1>10. ASSUME NEW i \in DOMAIN queue', NEW j \in DOMAIN queue', queue'[i] = queue'[j]
       PROVE  i = j
  <2>1. CASE i \in 1 .. n
    <3>1. queue'[i] # c /\ queue'[i] \notin Joined
      BY <1>3, <1>9, <2>1
    <3>2. j \in 1 .. n
      BY <1>7, <1>9, <1>10, <3>1
    <3> QED BY <1>3, <1>4, <1>10, <2>1, <3>2
  <2>2. CASE i = n + 1
    <3>1. queue'[i] = c
      BY <1>3, <2>2
    <3> QED BY <1>3, <1>7, <1>9, <1>10, <2>2, <3>1
  <2>3. CASE \E k \in 1 .. Len(others) : i = n + 1 + k /\ queue'[i] = others[k]
    <3>1. PICK k \in 1 .. Len(others) : i = n + 1 + k /\ queue'[i] = others[k]
      BY <2>3
    <3>2. PICK l \in 1 .. Len(others) : j = n + 1 + l /\ queue'[j] = others[l]
      BY <1>3, <1>7, <1>9, <1>10, <3>1
    <3>3. k = l
      BY <1>2, <1>3, <1>10, <3>1, <3>2
    <3> QED BY <3>1, <3>2, <3>3
  <2> QED BY <1>7, <2>1, <2>2, <2>3
<1>11. queue' # <<>>
  BY <1>3
<1> QED BY <1>8, <1>10, <1>11 DEF Chain, Refreshed

LEMMA ChainStep == TypeOK /\ Chain /\ [Next]_vars => Chain'
<1> SUFFICES ASSUME TypeOK, Chain, [Next]_vars PROVE Chain'
  OBVIOUS
<1>1. ASSUME NEW c \in Calls, Refresh(c) \/ Check(c) \/ Provider(c) PROVE Chain'
  <2>1. \A d \in Calls : pc[d] \in Saving => pc'[d] = pc[d]
    BY <1>1 DEF Refresh, Check, Provider, Honours, Refuses, Asks, Go, Saving, TypeOK
  <2>2. UNCHANGED <<queue, sealed, temp>>
    BY <1>1 DEF Refresh, Check, Provider, Honours, Refuses, disk
  <2> QED BY <2>1, <2>2, ChainKept
<1>2. ASSUME NEW c \in Calls, RefreshFails(c) \/ AnswerLost(c) PROVE Chain'
  <2>1. \A d \in Calls : pc[d] \in Saving => pc'[d] = pc[d]
    BY <1>2 DEF RefreshFails, AnswerLost, Joined, Saving
  <2>2. UNCHANGED <<queue, sealed, temp>>
    BY <1>2 DEF RefreshFails, AnswerLost, disk
  <2> QED BY <2>1, <2>2, ChainKept
<1>3. ASSUME NEW c \in Calls, Revoke(c) PROVE Chain'
  <2>1. /\ pc[c] \notin Saving /\ "saving" \in Saving /\ pc' = [pc EXCEPT ![c] = "saving"]
        /\ queue' = Append(queue, c) /\ UNCHANGED <<sealed, temp>>
    BY <1>3 DEF Revoke, Asks, Go, Saving
  <2> QED BY <2>1, ChainAppended
<1>4. ASSUME NEW c \in Calls, Probed(c) PROVE Chain'
  <2>1. /\ pc[c] \notin Saving /\ "saving" \in Saving /\ pc' = [pc EXCEPT ![c] = "saving"]
        /\ queue' = Append(queue, c) /\ UNCHANGED <<sealed, temp>>
    BY <1>4 DEF Probed, Go, Saving
  <2> QED BY <2>1, ChainAppended
<1>5. ASSUME NEW c \in Calls, ProbeFails(c) PROVE Chain'
  <2>1. /\ pc[c] \notin Saving /\ "closing failed" \in Saving
        /\ pc' = [pc EXCEPT ![c] = "closing failed"]
        /\ queue' = Append(queue, c) /\ UNCHANGED <<sealed, temp>>
    BY <1>5 DEF ProbeFails, Go, Saving
  <2> QED BY <2>1, ChainAppended
<1>6. ASSUME NEW c \in Calls, Refreshed(c) PROVE Chain'
  BY <1>6, ChainRefreshed
<1>7. CASE Seal
  BY <1>7 DEF Seal, Chain, calls
<1>8. CASE Write
  BY <1>8 DEF Write, Chain, calls
<1>9. CASE Rename \/ SaveFails
  BY <1>9, ChainAnswered DEF Rename, SaveFails
<1>10. CASE Crash
  BY <1>10 DEF Crash, Chain
<1>11. CASE UNCHANGED vars
  BY <1>11 DEF vars, disk, calls, Chain
<1> QED
  BY <1>1, <1>2, <1>3, <1>4, <1>5, <1>6, <1>7, <1>8, <1>9, <1>10, <1>11
     DEF Next, Hears, Checked, Save

-----------------------------------------------------------------------------
(* The copies of the data. *)
LEMMA BehindStays ==
  ASSUME TypeOK, NEW d, Behind(d), live' \in Nat, live' >= live, excused => excused'
  PROVE  d \in Data => d.token <= live' /\ (d.revoked = "provider" => excused')
<1> SUFFICES ASSUME d \in Data PROVE d.token <= live' /\ (d.revoked = "provider" => excused')
  OBVIOUS
<1>1. d.token \in Nat /\ live \in Nat
  BY DataFields DEF TypeOK, Tokens
<1> QED BY <1>1 DEF Behind

(* Memory may change, and the rest is what it was, or gone. *)
LEMMA CopiesStay ==
  ASSUME TypeOK, Copied, live' \in Nat, live' >= live, excused => excused',
         memory'.token <= live', memory'.revoked = "provider" => excused',
         vault' \in {vault, temp}, temp' \in {temp, Nothing, Torn, sealed},
         sealed' \in {sealed, Nothing, memory}
  PROVE  Copied'
<1>1. Behind(memory) /\ Behind(vault) /\ Behind(temp) /\ Behind(sealed)
  BY DEF Copied
<1>2. /\ Behind(memory)'
      /\ vault' \in Data => vault'.token <= live' /\ (vault'.revoked = "provider" => excused')
      /\ temp' \in Data => temp'.token <= live' /\ (temp'.revoked = "provider" => excused')
      /\ sealed' \in Data => sealed'.token <= live' /\ (sealed'.revoked = "provider" => excused')
  BY <1>1, BehindStays, AuthServiceAssumption DEF Behind
<1> QED BY <1>2 DEF Copied, Behind

LEMMA CopiedStep == TypeOK /\ Copied /\ InStep /\ [Next]_vars => Copied'
<1> SUFFICES ASSUME TypeOK, Copied, InStep, [Next]_vars PROVE Copied'
  OBVIOUS
<1>0. /\ memory \in Data /\ live \in Nat /\ memory.token \in Nat /\ memory.token <= live
      /\ (memory.revoked = "provider" => excused)
  BY DataFields DEF TypeOK, Tokens, Copied, Behind
<1>1. ASSUME NEW c \in Calls, Refresh(c) \/ Refuses(c) \/ AnswerLost(c) \/ Probed(c) PROVE Copied'
  <2>1. excused => excused'
    BY <1>1 DEF Refresh, Refuses, AnswerLost, Probed
  <2>2. UNCHANGED <<memory, vault, temp, sealed, live>>
    BY <1>1 DEF Refresh, Refuses, AnswerLost, Probed, disk
  <2> QED BY <1>0, <2>1, <2>2, CopiesStay
<1>2. ASSUME NEW c \in Calls, Honours(c) PROVE Copied'
  <2>1. UNCHANGED <<memory, vault, temp, sealed, excused>> /\ live' \in Nat /\ live' >= live
    BY <1>0, <1>2 DEF Honours, disk
  <2> QED BY <1>0, <2>1, CopiesStay
<1>3. ASSUME NEW c \in Calls, Refreshed(c) PROVE Copied'
  <2>1. memory'.token = token[c] /\ memory'.revoked = memory.revoked /\ token[c] <= live
    BY <1>0, <1>3, RefreshedMemory DEF TypeOK, Tokens, InStep
  <2>2. UNCHANGED <<vault, temp, sealed, live, excused>>
    BY <1>3 DEF Refreshed
  <2> QED BY <1>0, <2>1, <2>2, CopiesStay
<1>4. ASSUME NEW c \in Calls, RefreshFails(c) PROVE Copied'
  <2>1. /\ memory'.token = memory.token /\ excused
    BY <1>0, <1>4, RefusedMemory DEF InStep, RefreshFails
  <2>2. UNCHANGED <<vault, temp, sealed, live, excused>>
    BY <1>4 DEF RefreshFails, disk
  <2> QED BY <1>0, <2>1, <2>2, CopiesStay
<1>5. ASSUME NEW c \in Calls, Revoke(c) \/ Check(c) \/ ProbeFails(c) PROVE Copied'
  <2>1. memory'.token = memory.token
        /\ (memory'.revoked = "provider" => memory.revoked = "provider")
    BY <1>0, <1>5, RevokeMemory, CheckMemory, GrantClosed DEF ProbeFails
  <2>2. UNCHANGED <<vault, temp, sealed, live, excused>>
    BY <1>5 DEF Revoke, Check, ProbeFails, disk
  <2> QED BY <1>0, <2>1, <2>2, CopiesStay
<1>6. CASE Seal
  BY <1>0, <1>6, CopiesStay DEF Seal
<1>7. CASE Write
  BY <1>0, <1>7, CopiesStay DEF Write
<1>8. CASE Rename \/ SaveFails
  <2>1. queue # <<>> /\ Head(queue) \in Calls
    BY <1>8 DEF Rename, SaveFails, TypeOK
  <2>2. memory'.token = memory.token /\ memory'.revoked = memory.revoked
    BY <1>0, <1>8, <2>1, AnsweredMemory DEF Rename, SaveFails
  <2>3. /\ vault' \in {vault, temp} /\ temp' \in {temp, Nothing} /\ sealed' = Nothing
        /\ UNCHANGED <<live, excused>>
    BY <1>8 DEF Rename, SaveFails, Answered
  <2> QED BY <1>0, <2>2, <2>3, CopiesStay
<1>9. CASE Crash
  <2>1. vault \in Data /\ memory' = vault
    BY <1>9 DEF Crash, TypeOK
  <2>2. excused => excused'
    BY <1>9 DEF Crash
  <2>3. memory'.token <= live /\ (memory'.revoked = "provider" => excused)
    BY <2>1 DEF Copied, Behind
  <2>4. UNCHANGED <<vault, temp, live>> /\ sealed' = Nothing
    BY <1>9 DEF Crash
  <2> QED BY <1>0, <2>2, <2>3, <2>4, CopiesStay
<1>10. CASE UNCHANGED vars
  BY <1>10 DEF vars, disk, Copied, Behind
<1> QED
  BY <1>1, <1>2, <1>3, <1>4, <1>5, <1>6, <1>7, <1>8, <1>9, <1>10
     DEF Next, Provider, Hears, Checked, Save

-----------------------------------------------------------------------------
(* One refresh at a time, with the live token. *)

(* What leaves the refreshes, memory's token and the provider alone. *)
LEMMA InStepKept ==
  ASSUME TypeOK, InStep, memory'.token = memory.token, UNCHANGED <<live, token>>,
         excused => excused',
         \A d \in Calls : pc'[d] \in {"sent", "granted", "refused"} => pc'[d] = pc[d],
         excused' \/ \A d \in Calls : pc[d] = "granted" => pc'[d] = "granted"
  PROVE  InStep'
<1>1. Refreshing' \subseteq Refreshing
  BY DEF Refreshing
<1> QED BY <1>1 DEF InStep, Refreshing

LEMMA InStepStep == TypeOK /\ Chain /\ Copied /\ InStep /\ [Next]_vars => InStep'
<1> SUFFICES ASSUME TypeOK, Chain, Copied, InStep, [Next]_vars PROVE InStep'
  OBVIOUS
<1>0. /\ memory \in Data /\ live \in Nat /\ memory.token \in Nat /\ memory.token <= live
      /\ token \in [Calls -> Nat]
  BY DataFields DEF TypeOK, Tokens, Copied, Behind
<1>1. ASSUME NEW c \in Calls, Refresh(c) PROVE InStep'
  <2>1. /\ UNCHANGED <<memory, live, excused>> /\ pc[c] = "idle"
        /\ token' = [token EXCEPT ![c] = memory.token]
        /\ \A d \in Calls : d # c => pc'[d] = pc[d]
        /\ pc'[c] \in {"joined", "failed", "sent"}
        /\ pc'[c] = "sent" => Refreshing = {}
    BY <1>1 DEF Refresh, Asks, Go, TypeOK
  <2>2. /\ token'[c] = memory.token /\ \A d \in Calls : d # c => token'[d] = token[d]
    BY <1>0, <2>1
  <2>3. \A d \in Calls : token'[d] <= live'
    BY <1>0, <2>1, <2>2 DEF InStep
  <2>4. \A d, e \in Refreshing' : d = e
    BY <2>1 DEF InStep, Refreshing
  <2> QED BY <1>0, <2>1, <2>2, <2>3, <2>4 DEF InStep
<1>2. ASSUME NEW c \in Calls, Honours(c) PROVE InStep'
  <2>1. /\ UNCHANGED <<memory, excused>> /\ pc[c] = "sent" /\ pc'[c] = "granted"
        /\ \A d \in Calls : d # c => pc'[d] = pc[d] /\ token'[d] = token[d]
        /\ live' \in Nat /\ live' >= live /\ token'[c] = live'
    BY <1>0, <1>2 DEF Honours, Go, TypeOK
  <2>2. \A d \in Calls : token'[d] <= live'
    BY <1>0, <2>1 DEF InStep
  <2>3. Refreshing' = Refreshing /\ c \in Refreshing
    BY <2>1 DEF Refreshing
  <2>4. \A d \in Calls : d # c => pc'[d] \notin {"sent", "granted"}
    BY <2>1, <2>3 DEF InStep, Refreshing
  <2> QED BY <2>1, <2>2, <2>3, <2>4 DEF InStep
<1>3. ASSUME NEW c \in Calls, Refuses(c) PROVE InStep'
  <2>1. /\ UNCHANGED <<memory, token, live>> /\ pc[c] = "sent" /\ pc'[c] = "refused"
        /\ \A d \in Calls : d # c => pc'[d] = pc[d]
        /\ excused' = (excused \/ token[c] = live)
    BY <1>3 DEF Refuses, Go, TypeOK
  <2>2. Refreshing' = Refreshing /\ c \in Refreshing
    BY <2>1 DEF Refreshing
  <2>3. \A d \in Calls : pc[d] # "granted"
    BY <2>1, <2>2 DEF InStep, Refreshing
  <2>4. excused'
    BY <2>1, <2>3 DEF InStep
  <2> QED BY <2>1, <2>2, <2>4 DEF InStep
<1>4. ASSUME NEW c \in Calls, Refreshed(c) PROVE InStep'
  <2>1. /\ pc[c] = "granted" /\ memory'.token = token[c] /\ token[c] = live
        /\ UNCHANGED <<live, excused>>
        /\ \A d \in Calls : pc'[d] = IF d \in Joined \cup {c} THEN "saving" ELSE pc[d]
        /\ \A d \in Calls : token'[d] = IF d \in Joined THEN token[c] ELSE token[d]
    BY <1>0, <1>4, RefreshedMemory DEF Refreshed, InStep
  <2>2. \A d \in Calls : pc'[d] \notin {"sent", "granted", "refused"}
    BY <2>1 DEF InStep, Refreshing
  <2>3. \A d \in Calls : token'[d] <= live'
    BY <1>0, <2>1 DEF InStep
  <2>4. memory'.token = live' /\ Refreshing' = {}
    BY <2>1, <2>2 DEF Refreshing
  <2> QED BY <2>2, <2>3, <2>4 DEF InStep
<1>5. ASSUME NEW c \in Calls, RefreshFails(c) PROVE InStep'
  <2>1. /\ memory'.token = memory.token /\ UNCHANGED <<token, live, excused>>
        /\ pc[c] = "refused" /\ excused
        /\ \A d \in Calls : pc'[d] = IF d \in Joined \cup {c} THEN "failed" ELSE pc[d]
    BY <1>0, <1>5, RefusedMemory DEF RefreshFails, InStep
  <2> QED BY <2>1, InStepKept
<1>6. ASSUME NEW c \in Calls, AnswerLost(c) PROVE InStep'
  <2>1. /\ UNCHANGED <<memory, token, live>> /\ excused' = (excused \/ pc[c] = "granted")
        /\ pc[c] \in {"sent", "granted"}
        /\ \A d \in Calls : pc'[d] = IF d \in Joined \cup {c} THEN "failed" ELSE pc[d]
    BY <1>6 DEF AnswerLost
  <2>2. \A d \in Calls : pc[d] = "granted" => d = c
    BY <2>1 DEF InStep, Refreshing
  <2>3. excused' \/ \A d \in Calls : pc[d] # "granted"
    BY <2>1, <2>2
  <2> QED BY <2>1, <2>3, InStepKept
<1>7. ASSUME NEW c \in Calls, Revoke(c) \/ Check(c) \/ ProbeFails(c) \/ Probed(c) PROVE InStep'
  <2>1. memory'.token = memory.token
    BY <1>0, <1>7, RevokeMemory, CheckMemory, GrantClosed DEF ProbeFails, Probed
  <2>2. UNCHANGED <<token, live, excused>>
    BY <1>7 DEF Revoke, Check, ProbeFails, Probed
  <2>3. /\ \A d \in Calls : d # c => pc'[d] = pc[d]
        /\ pc[c] # "granted" /\ pc'[c] \notin {"sent", "granted", "refused"}
    BY <1>7 DEF Revoke, Check, ProbeFails, Probed, Asks, Go, TypeOK
  <2> QED BY <2>1, <2>2, <2>3, InStepKept
<1>8. CASE Seal \/ Write
  BY <1>8, InStepKept DEF Seal, Write, calls
<1>9. CASE Rename \/ SaveFails
  <2>1. queue # <<>> /\ Head(queue) \in Calls /\ pc[Head(queue)] # "granted"
    <3>1. queue # <<>>
      BY <1>9 DEF Rename, SaveFails
    <3> QED BY <3>1, FrontSaves DEF Saving
  <2>2. memory'.token = memory.token /\ UNCHANGED <<token, live, excused>>
    BY <1>0, <1>9, <2>1, AnsweredMemory DEF Rename, SaveFails
  <2>3. /\ \A d \in Calls : d # Head(queue) => pc'[d] = pc[d]
        /\ pc'[Head(queue)] \in {"closing", "closing failed", "ok", "failed"}
    BY <1>9, <2>1 DEF Rename, SaveFails, Answered, Go, TypeOK
  <2> QED BY <2>1, <2>2, <2>3, InStepKept
<1>10. CASE Crash
  <2>1. /\ memory' = vault /\ excused' = (excused \/ vault.token # live)
        /\ UNCHANGED <<token, live>>
        /\ \A d \in Calls : pc'[d] \notin {"sent", "granted", "refused"}
    BY <1>10 DEF Crash, Ended
  <2> QED BY <2>1 DEF InStep, Refreshing
<1>11. CASE UNCHANGED vars
  BY <1>11 DEF vars, calls, InStep, Refreshing
<1> QED
  BY <1>1, <1>2, <1>3, <1>4, <1>5, <1>6, <1>7, <1>8, <1>9, <1>10, <1>11
     DEF Next, Provider, Hears, Checked, Save

-----------------------------------------------------------------------------
(* What the calls are told. *)

(* A call that does not move keeps what it has, if memory only gains.        *)
LEMMA AckKept ==
  ASSUME TypeOK, NEW d \in Calls, Ack(d),
         pc'[d] = pc[d], op'[d] = op[d], token'[d] = token[d],
         memory' \in Data, memory'.token >= memory.token,
         memory.revoked # "no" => memory'.revoked # "no",
         d \notin memory.open => d \notin memory'.open,
         pc[d] = "ok" => Kept(op[d], token[d], d, vault'),
         \/ sealed' = Nothing
         \/ sealed' = sealed /\ queue'[1] = queue[1]
  PROVE  Ack(d)'
<1>1. memory.token \in Nat /\ memory'.token \in Nat /\ token[d] \in Nat
  BY DataFields DEF TypeOK, Tokens
<1>2. Kept(op[d], token[d], d, memory) => Kept(op[d], token[d], d, memory')
  BY <1>1 DEF Kept
<1> QED BY <1>2 DEF Ack, Due, Kept

(* Sealing is copying memory. *)
LEMMA AckSealed ==
  ASSUME TypeOK, Acks, Seal
  PROVE  Acks'
  BY DEF Acks, Ack, Due, Kept, Seal, calls, TypeOK

(* The running save is not that of a call that joins the chain. *)
LEMMA FrontStays ==
  ASSUME TypeOK, Chain, sealed # Nothing, NEW s \in Seq(Calls), queue' = queue \o s
  PROVE  /\ queue'[1] = queue[1] /\ queue[1] \in Calls /\ pc[queue[1]] \in Saving
<1>1. queue \in Seq(Calls) /\ queue # <<>>
  BY DEF TypeOK, Chain
<1>2. queue[1] \in Calls /\ pc[queue[1]] \in Saving
  BY <1>1, FrontSaves
<1> QED BY <1>1, <1>2

LEMMA AppendIsConcat ==
  ASSUME NEW q \in Seq(Calls), NEW c \in Calls
  PROVE  <<c>> \in Seq(Calls) /\ Append(q, c) = q \o <<c>>
  OBVIOUS

LEMMA AcksAnswered ==
  ASSUME TypeOK, Chain, Acks, queue # <<>>, NEW result \in {"ok", "failed"},
         NEW c \in Calls, c = Head(queue), Answered(c, result), UNCHANGED <<op, token>>,
         \/ vault' = sealed /\ sealed # Nothing
         \/ result = "failed" /\ vault' = vault
  PROVE  Acks'
<1>1. c \in Calls /\ c = queue[1] /\ pc[c] \in Saving
  BY FrontSaves
<1>2. /\ memory' \in Data /\ memory'.token = memory.token
      /\ memory'.revoked = memory.revoked /\ memory'.open \subseteq memory.open
      /\ (op[c] = "check" /\ pc[c] = "saving" => c \notin memory'.open)
  BY <1>1, AnsweredMemory DEF TypeOK
<1>3. /\ \A d \in Calls : d # c => pc'[d] = pc[d]
      /\ pc'[c] = IF op[c] = "check" /\ pc[c] = "saving"
                  THEN IF result = "ok" THEN "closing" ELSE "closing failed"
                  ELSE IF pc[c] = "closing failed" THEN "failed" ELSE result
      /\ sealed' = Nothing
      /\ ~(op[c] = "check" /\ pc[c] = "saving") => memory' = memory
  BY <1>1 DEF Answered, Go, TypeOK
<1>4. ASSUME NEW d \in Calls, d # c PROVE Ack(d)'
  <2>1. Ack(d)
    BY DEF Acks
  <2>2. pc[d] = "ok" => Kept(op[d], token[d], d, vault')
    BY <2>1 DEF Ack, Kept
  <2>3. pc'[d] = pc[d] /\ op'[d] = op[d] /\ token'[d] = token[d]
    BY <1>3, <1>4
  <2>5. memory'.token >= memory.token
    <3>1. memory.token \in Nat
      BY DataFields DEF TypeOK
    <3> QED BY <1>2, <3>1
  <2>4. /\ memory.revoked # "no" => memory'.revoked # "no"
        /\ d \notin memory.open => d \notin memory'.open
    BY <1>2
  <2> QED BY <1>2, <1>3, <2>1, <2>2, <2>3, <2>4, <2>5, AckKept
<1>5. Ack(c)'
  <2>1. Ack(c)
    BY <1>1 DEF Acks
  <2>2. CASE op[c] = "check" /\ pc[c] = "saving"
    BY <1>2, <1>3, <2>2 DEF Ack, Due, Kept
  <2>3. CASE ~(op[c] = "check" /\ pc[c] = "saving") /\ pc'[c] = "failed"
    BY <1>3, <2>3 DEF Ack, Due
  <2>4. CASE ~(op[c] = "check" /\ pc[c] = "saving") /\ pc'[c] = "ok"
    <3>1. result = "ok" /\ Due(c)
      BY <1>1, <1>3, <2>4 DEF Due, Saving
    <3>2. Kept(op[c], token[c], c, memory) /\ Kept(op[c], token[c], c, sealed)
      BY <1>1, <2>1, <3>1 DEF Ack
    <3> QED BY <1>3, <2>4, <3>1, <3>2 DEF Ack, Due, Kept
  <2> QED BY <1>3, <2>2, <2>3, <2>4
<1> QED BY <1>4, <1>5 DEF Acks

LEMMA AcksStep == Inv /\ [Next]_vars => Acks'
<1> SUFFICES ASSUME Inv, [Next]_vars PROVE Acks'
  OBVIOUS
<1> USE DEF Inv
<1>0. /\ memory \in Data /\ live \in Nat /\ memory.token \in Nat /\ memory.token <= live
      /\ token \in [Calls -> Nat] /\ queue \in Seq(Calls)
  BY DataFields DEF TypeOK, Tokens, Copied, Behind
<1>00. ASSUME NEW d \in Calls
       PROVE  Ack(d) /\ (pc[d] = "ok" => Kept(op[d], token[d], d, vault))
  BY DEF Acks, Ack
<1>1. ASSUME NEW c \in Calls, Refresh(c) \/ Check(c) PROVE Acks'
  <2>1. /\ \A d \in Calls : d # c => pc'[d] = pc[d] /\ op'[d] = op[d] /\ token'[d] = token[d]
        /\ UNCHANGED <<vault, sealed, queue>>
        /\ \/ op'[c] = "refresh" /\ pc'[c] \in {"joined", "failed", "sent"}
           \/ op'[c] = "check" /\ pc'[c] \in {"failed", "probing"}
    BY <1>0, <1>1 DEF Refresh, Check, Asks, Go, TypeOK, disk
  <2>2. /\ memory' \in Data /\ memory'.token = memory.token
        /\ memory'.revoked = memory.revoked /\ memory'.open \subseteq memory.open \cup {c}
    BY <1>0, <1>1, CheckMemory DEF Refresh
  <2>3. ASSUME NEW d \in Calls, d # c PROVE Ack(d)'
    BY <1>0, <1>00, <2>1, <2>2, <2>3, AckKept
  <2>4. Ack(c)'
    BY <2>1 DEF Ack, Due
  <2> QED BY <2>3, <2>4 DEF Acks
<1>2. ASSUME NEW c \in Calls, Provider(c) PROVE Acks'
  <2>1. /\ \A d \in Calls : d # c => pc'[d] = pc[d] /\ token'[d] = token[d]
        /\ UNCHANGED <<memory, vault, sealed, queue, op>>
        /\ pc[c] = "sent" /\ pc'[c] \in {"granted", "refused"}
    BY <1>0, <1>2 DEF Provider, Honours, Refuses, Go, TypeOK, disk
  <2>2. ASSUME NEW d \in Calls, d # c PROVE Ack(d)'
    BY <1>0, <1>00, <2>1, <2>2, AckKept
  <2>3. Ack(c)'
    BY <1>00, <2>1 DEF Ack, Due
  <2> QED BY <2>2, <2>3 DEF Acks
<1>3. ASSUME NEW c \in Calls, Refreshed(c) PROVE Acks'
  <2>1. PICK others \in Orders(Joined) : queue' = queue \o <<c>> \o others
    BY <1>3 DEF Refreshed
  <2> DEFINE s == <<c>> \o others
  <2>2. s \in Seq(Calls) /\ queue' = queue \o s
    BY <1>0, <2>1, JoinedInOrder
  <2> HIDE DEF s
  <2>3. /\ pc[c] = "granted"
        /\ \A d \in Calls : pc'[d] = IF d \in Joined \cup {c} THEN "saving" ELSE pc[d]
        /\ \A d \in Calls : token'[d] = IF d \in Joined THEN token[c] ELSE token[d]
        /\ UNCHANGED <<vault, sealed, op>>
    BY <1>3 DEF Refreshed
  <2>4. /\ memory' \in Data /\ memory'.token = token[c] /\ token[c] = live
        /\ memory'.revoked = memory.revoked /\ memory'.open = memory.open
    BY <1>0, <1>3, <2>3, RefreshedMemory DEF InStep
  <2>5. sealed # Nothing => /\ queue'[1] = queue[1] /\ queue[1] \notin Joined \cup {c}
    BY <2>2, <2>3, FrontStays DEF Joined, Saving
  <2>6. ASSUME NEW d \in Calls, d \notin Joined \cup {c} PROVE Ack(d)'
    BY <1>0, <1>00, <2>3, <2>4, <2>5, <2>6, AckKept
  <2>7. ASSUME NEW d \in Calls, d \in Joined \cup {c} PROVE Ack(d)'
    <3>1. /\ op'[d] = "refresh" /\ pc'[d] = "saving" /\ token'[d] = token[c]
      BY <1>00, <2>3, <2>7 DEF Ack, Joined
    <3>2. Kept("refresh", token[c], d, memory')
      BY <1>0, <2>4 DEF Kept
    <3> QED BY <2>3, <2>5, <2>7, <3>1, <3>2 DEF Ack, Due
  <2> QED BY <2>6, <2>7 DEF Acks
<1>4. ASSUME NEW c \in Calls, RefreshFails(c) \/ AnswerLost(c) PROVE Acks'
  <2>1. /\ \A d \in Calls : pc'[d] = pc[d] \/ pc'[d] = "failed"
        /\ UNCHANGED <<vault, sealed, queue, op, token>>
    BY <1>4 DEF RefreshFails, AnswerLost, disk
  <2>2. /\ memory' \in Data /\ memory'.token = memory.token /\ memory'.open = memory.open
        /\ memory.revoked # "no" => memory'.revoked # "no"
    BY <1>0, <1>4, RefusedMemory DEF AnswerLost
  <2>3. ASSUME NEW d \in Calls, pc'[d] = pc[d] PROVE Ack(d)'
    BY <1>0, <1>00, <2>1, <2>2, <2>3, AckKept
  <2>4. ASSUME NEW d \in Calls, pc'[d] = "failed" PROVE Ack(d)'
    BY <2>4 DEF Ack, Due
  <2> QED BY <2>1, <2>3, <2>4 DEF Acks
<1>5. ASSUME NEW c \in Calls, Revoke(c) PROVE Acks'
  <2>1. /\ \A d \in Calls : d # c => pc'[d] = pc[d] /\ op'[d] = op[d]
        /\ UNCHANGED <<vault, sealed, token>>
        /\ pc[c] = "idle" /\ pc'[c] = "saving" /\ op'[c] = "revoke"
    BY <1>5 DEF Revoke, Asks, Go, TypeOK
  <2>2. /\ memory' \in Data /\ memory'.token = memory.token
        /\ memory'.revoked # "no" /\ memory'.open = {}
    BY <1>0, <1>5, RevokeMemory
  <2>3. <<c>> \in Seq(Calls) /\ queue' = queue \o <<c>>
    BY <1>0, <1>5, AppendIsConcat DEF Revoke
  <2>4. sealed # Nothing => queue'[1] = queue[1] /\ queue[1] # c
    BY <2>1, <2>3, FrontStays DEF Saving
  <2>5. ASSUME NEW d \in Calls, d # c PROVE Ack(d)'
    BY <1>0, <1>00, <2>1, <2>2, <2>4, <2>5, AckKept
  <2>6. Ack(c)'
    BY <2>1, <2>2, <2>4 DEF Ack, Due, Kept
  <2> QED BY <2>5, <2>6 DEF Acks
<1>6. ASSUME NEW c \in Calls, Probed(c) \/ ProbeFails(c) PROVE Acks'
  <2>1. /\ \A d \in Calls : d # c => pc'[d] = pc[d]
        /\ UNCHANGED <<vault, sealed>> /\ op' = op /\ token' = token
        /\ op[c] = "check" /\ pc[c] = "probing" /\ pc'[c] \in {"saving", "closing failed"}
    BY <1>00, <1>6 DEF Probed, ProbeFails, Go, TypeOK, Ack
  <2>2. /\ memory' \in Data /\ memory'.token = memory.token
        /\ memory'.revoked = memory.revoked /\ memory'.open \subseteq memory.open
    BY <1>0, <1>6, GrantClosed DEF Probed, ProbeFails
  <2>3. <<c>> \in Seq(Calls) /\ queue' = queue \o <<c>>
    BY <1>0, <1>6, AppendIsConcat DEF Probed, ProbeFails
  <2>4. sealed # Nothing => queue'[1] = queue[1]
    BY <2>3, FrontStays
  <2>5. ASSUME NEW d \in Calls, d # c PROVE Ack(d)'
    <3>1. pc'[d] = pc[d] /\ op'[d] = op[d] /\ token'[d] = token[d]
      BY <2>1, <2>5
    <3>2. memory'.token >= memory.token
      BY <1>0, <2>2
    <3>3. d \notin memory.open => d \notin memory'.open
      BY <2>2
    <3> QED BY <1>00, <2>1, <2>2, <2>4, <3>1, <3>2, <3>3, AckKept
  <2>6. Ack(c)'
    BY <2>1 DEF Ack, Due
  <2> QED BY <2>5, <2>6 DEF Acks
<1>7. CASE Seal
  BY <1>7, AckSealed
<1>8. CASE Write
  BY <1>8 DEF Write, calls, Acks, Ack, Due, Kept
<1>9. CASE Rename
  <2>1. vault' = sealed /\ sealed # Nothing
    BY <1>9, AuthServiceAssumption DEF Rename, Chain
  <2>2. queue # <<>> /\ Answered(Head(queue), "ok") /\ UNCHANGED <<op, token>>
    BY <1>9 DEF Rename
  <2>3. Head(queue) \in Calls
    BY <2>2, FrontSaves
  <2> QED BY <2>1, <2>2, <2>3, AcksAnswered
<1>10. CASE SaveFails
  <2>1. /\ queue # <<>> /\ Answered(Head(queue), "failed") /\ UNCHANGED <<op, token>>
        /\ vault' = vault
    BY <1>10 DEF SaveFails
  <2>2. Head(queue) \in Calls
    BY <2>1, FrontSaves
  <2> QED BY <2>1, <2>2, AcksAnswered
<1>11. CASE Crash
  <2>1. /\ memory' = vault /\ vault' = vault /\ sealed' = Nothing
        /\ UNCHANGED <<op, token>>
        /\ \A d \in Calls : pc'[d] = "lost" \/ (pc'[d] = pc[d] /\ pc[d] \in {"idle"} \cup Ended)
    BY <1>11 DEF Crash
  <2> QED BY <1>00, <2>1 DEF Acks, Ack, Due, Ended, Kept
<1>12. CASE UNCHANGED vars
  BY <1>12 DEF vars, disk, calls, Acks, Ack, Due, Kept
<1> QED
  BY <1>1, <1>2, <1>3, <1>4, <1>5, <1>6, <1>7, <1>8, <1>9, <1>10, <1>11, <1>12
     DEF Next, Hears, Checked, Save

-----------------------------------------------------------------------------
LEMMA StepInv == Inv /\ [Next]_vars => Inv'
  BY TypeStep, ChainStep, CopiedStep, InStepStep, AcksStep DEF Inv

LEMMA InvHolds == Spec => []Inv
  BY InitInv, StepInv, PTL DEF Spec

(* Every variable of the service keeps its type, for any set of calls and    *)
(* any number of deaths of the process.                                      *)
THEOREM TypeCorrect == Spec => []TypeOK
<1>1. Inv => TypeOK
  BY DEF Inv
<1> QED BY <1>1, InvHolds, PTL

(* The vault is never half a file: only a whole one is renamed to its name.  *)
THEOREM VaultSafe == Spec => []VaultIsWhole
<1>1. Init => VaultIsWhole
  BY AuthServiceAssumption DEF Init, VaultIsWhole, Data, Tokens
<1>2. VaultIsWhole /\ [Next]_vars => VaultIsWhole'
  BY AuthServiceAssumption
     DEF VaultIsWhole, Next, vars, disk, calls, Refresh, Revoke, Check, Provider, Honours,
         Refuses, Hears, Refreshed, RefreshFails, AnswerLost, Checked, Probed, ProbeFails,
         Save, Seal, Write, Rename, SaveFails, Crash
<1> QED BY <1>1, <1>2, PTL DEF Spec

(* A refusal has an excuse: the shared refresh never sends a token that      *)
(* another refresh of the process made stale.                                *)
THEOREM RefusalSafe == Spec => []RefusalIsEarned
<1>1. Inv => RefusalIsEarned
  BY DEF Inv, TypeOK, Copied, Behind, RefusalIsEarned
<1> QED BY <1>1, InvHolds, PTL

(* What a call was told is in the vault, and stays there through later       *)
(* saves, their failures and the death of the process.                       *)
THEOREM AcknowledgementKept == Spec => []AcknowledgedIsKept
<1>1. Inv => AcknowledgedIsKept
  BY DEF Inv, Acks, Ack, Kept, AcknowledgedIsKept
<1> QED BY <1>1, InvHolds, PTL
=============================================================================
