------------------------------ MODULE AuthService ------------------------------
(***************************************************************************)
(* The credentials behind the console: AuthService (service.js) over one   *)
(* OAuth credential of the vault, with the shared refresh of lifecycle.js, *)
(* the temporary grant of check(), the chained saves and saveVault.        *)
(*                                                                         *)
(* One process serves the calls.  What they share is memory; a turn of its *)
(* event loop is one step, and between turns stand the provider's answers  *)
(* and the writing of the file.  The process may die at any point and load *)
(* the vault anew.  A refresh may rotate the refresh token: then only the  *)
(* new one is honoured.                                                    *)
(***************************************************************************)
EXTENDS Naturals, Sequences, FiniteSets

CONSTANTS
  Calls,      \* calls of the console
  MaxCrashes, \* how often the process may die
  Nothing,    \* no file, no data
  Torn        \* a file of which only a part is written

VARIABLES
  memory,  \* this.data, as far as the credential goes
  vault,   \* the vault's file
  temp,    \* the file beside it
  sealed,  \* what the running save has sealed
  queue,   \* the calls whose saves are chained: the first one's is running
  pc,      \* where each call stands
  op,      \* what it asked for
  token,   \* the refresh token it has sent, then the one it was given
  live,    \* external: the refresh token the provider honours
  crashes, \* how often the process has died
  excused  \* history: the provider withdrew the credential, or a token was lost

disk  == <<vault, temp, sealed, queue>>
calls == <<pc, op, token>>
vars  == <<memory, disk, calls, live, crashes, excused>>

Tokens == Nat \* in the order they are issued; a call asks for one at most

(* revoked: by whom, if at all.  open: the checks whose grant is active. *)
Data == [token : Tokens, revoked : {"no", "caller", "provider"}, open : SUBSET Calls]

ASSUME AuthServiceAssumption ==
  /\ IsFiniteSet(Calls) /\ MaxCrashes \in Nat
  /\ Nothing \notin Data /\ Torn \notin Data /\ Nothing # Torn

Ops   == {"refresh", "revoke", "check"}
Ended == {"ok", "failed", "lost"}
Stages == {"idle", "sent", "joined", "granted", "refused", "probing",
           "saving", "closing", "closing failed"} \cup Ended

TypeOK ==
  /\ memory \in Data
  /\ vault \in Data \cup {Torn}
  /\ temp \in Data \cup {Torn, Nothing}
  /\ sealed \in Data \cup {Nothing}
  /\ queue \in Seq(Calls)
  /\ pc \in [Calls -> Stages]
  /\ op \in [Calls -> Ops \cup {Nothing}]
  /\ token \in [Calls -> Tokens]
  /\ live \in Tokens
  /\ crashes \in 0 .. MaxCrashes
  /\ excused \in BOOLEAN

Init ==
  /\ memory = [token |-> 0, revoked |-> "no", open |-> {}]
  /\ vault = memory /\ temp = Nothing /\ sealed = Nothing /\ queue = <<>>
  /\ pc = [c \in Calls |-> "idle"]
  /\ op = [c \in Calls |-> Nothing]
  /\ token = [c \in Calls |-> 0]
  /\ live = 0 /\ crashes = 0 /\ excused = FALSE

Go(c, there) == pc' = [pc EXCEPT ![c] = there]
Asks(c, what) == pc[c] = "idle" /\ op' = [op EXCEPT ![c] = what]

-----------------------------------------------------------------------------
(* refresh: forced, as the console does it.  refreshLocks has an entry from *)
(* the request to the answer, and who comes meanwhile awaits the same one.  *)

Refreshing == {c \in Calls : pc[c] \in {"sent", "granted", "refused"}}
Joined     == {c \in Calls : pc[c] = "joined"}
Orders(S)  == {s \in [1 .. Cardinality(S) -> S] : \A i, j \in DOMAIN s : s[i] = s[j] => i = j}

(* A bug: every call has a request of its own. *)
RefreshAlone(c) ==
  /\ Asks(c, "refresh")
  /\ Go(c, IF memory.revoked # "no" THEN "failed" ELSE "sent")
  /\ token' = [token EXCEPT ![c] = memory.token]
  /\ UNCHANGED <<memory, disk, live, crashes, excused>>

Refresh(c) ==
  /\ Asks(c, "refresh")
  /\ Go(c, IF Refreshing # {} THEN "joined"
           ELSE IF memory.revoked # "no" THEN "failed" ELSE "sent")
  /\ token' = [token EXCEPT ![c] = memory.token]
  /\ UNCHANGED <<memory, disk, live, crashes, excused>>

(* The provider honours the one live token, which it may rotate. *)
Honours(c) ==
  /\ pc[c] = "sent" /\ token[c] = live
  /\ Go(c, "granted")
  /\ live' \in {live, live + 1}
  /\ token' = [token EXCEPT ![c] = live']
  /\ UNCHANGED <<memory, disk, op, crashes, excused>>

Refuses(c) ==
  /\ pc[c] = "sent"
  /\ Go(c, "refused")
  /\ excused' = (excused \/ token[c] = live)
  /\ UNCHANGED <<memory, disk, op, token, live, crashes>>

(* The new token is written to the record whatever became of it meanwhile,  *)
(* and all that await the answer go on to save.                             *)
Refreshed(c) ==
  /\ pc[c] = "granted"
  /\ memory' = [memory EXCEPT !.token = token[c]]
  /\ pc' = [d \in Calls |-> IF d \in Joined \cup {c} THEN "saving" ELSE pc[d]]
  /\ token' = [d \in Calls |-> IF d \in Joined THEN token[c] ELSE token[d]]
  /\ \E others \in Orders(Joined) : queue' = queue \o <<c>> \o others
  /\ UNCHANGED <<vault, temp, sealed, op, live, crashes, excused>>

(* A bug: only the call that sent the request hears of its failure. *)
RefreshFailsAlone(c) ==
  /\ pc[c] = "refused"
  /\ Go(c, "failed")
  /\ UNCHANGED <<memory, disk, op, token, live, crashes, excused>>

(* A refusal that says so marks the credential as revoked, in memory; the   *)
(* error skips the save.                                                    *)
RefreshFails(c) ==
  /\ pc[c] = "refused"
  /\ pc' = [d \in Calls |-> IF d \in Joined \cup {c} THEN "failed" ELSE pc[d]]
  /\ memory' \in {memory, [memory EXCEPT !.revoked = "provider"]}
  /\ UNCHANGED <<disk, op, token, live, crashes, excused>>

(* The answer does not arrive, or is not one. *)
AnswerLost(c) ==
  /\ pc[c] \in {"sent", "granted"}
  /\ pc' = [d \in Calls |-> IF d \in Joined \cup {c} THEN "failed" ELSE pc[d]]
  /\ excused' = (excused \/ pc[c] = "granted")
  /\ UNCHANGED <<memory, disk, op, token, live, crashes>>

-----------------------------------------------------------------------------
(* revoke takes the grants of the credential with it. *)
Revoke(c) ==
  /\ Asks(c, "revoke")
  /\ memory' = [memory EXCEPT !.revoked = IF @ = "no" THEN "caller" ELSE @, !.open = {}]
  /\ Go(c, "saving")
  /\ queue' = Append(queue, c)
  /\ UNCHANGED <<vault, temp, sealed, token, live, crashes, excused>>

(* check: a grant for the time of the provider's answers.  There is none    *)
(* for a revoked credential, or for one without the identity scope.         *)
Check(c) ==
  /\ Asks(c, "check")
  /\ \/ Go(c, "failed") /\ UNCHANGED memory
     \/ /\ memory.revoked = "no"
        /\ Go(c, "probing") /\ memory' = [memory EXCEPT !.open = @ \cup {c}]
  /\ UNCHANGED <<disk, token, live, crashes, excused>>

Probed(c) ==
  /\ pc[c] = "probing"
  /\ Go(c, "saving")
  /\ queue' = Append(queue, c)
  /\ UNCHANGED <<memory, vault, temp, sealed, op, token, live, crashes, excused>>

(* The finally of check, after an error of the provider. *)
ProbeFails(c) ==
  /\ pc[c] = "probing"
  /\ Go(c, "closing failed")
  /\ memory' = [memory EXCEPT !.open = @ \ {c}]
  /\ queue' = Append(queue, c)
  /\ UNCHANGED <<vault, temp, sealed, op, token, live, crashes, excused>>

-----------------------------------------------------------------------------
(* The chain of saves: saveVault for the first call of the queue. *)

(* The data is sealed as it is when the save's turn comes. *)
Seal ==
  /\ queue # <<>> /\ sealed = Nothing
  /\ sealed' = memory
  /\ temp' = Torn
  /\ UNCHANGED <<memory, vault, queue, calls, live, crashes, excused>>

Write ==
  /\ sealed # Nothing /\ temp = Torn
  /\ temp' = sealed
  /\ UNCHANGED <<memory, vault, sealed, queue, calls, live, crashes, excused>>

(* Its save over, the call is answered; but check has its finally, which    *)
(* revokes the grant and saves again, whatever the first save came to.      *)
Answered(c, result) ==
  /\ sealed' = Nothing
  /\ IF op[c] = "check" /\ pc[c] = "saving"
     THEN /\ Go(c, IF result = "ok" THEN "closing" ELSE "closing failed")
          /\ memory' = [memory EXCEPT !.open = @ \ {c}]
          /\ queue' = Append(Tail(queue), c)
     ELSE /\ Go(c, IF pc[c] = "closing failed" THEN "failed" ELSE result)
          /\ queue' = Tail(queue)
          /\ UNCHANGED memory

Rename ==
  /\ queue # <<>> /\ sealed # Nothing /\ temp \in Data
  /\ vault' = temp /\ temp' = Nothing
  /\ Answered(Head(queue), "ok")
  /\ UNCHANGED <<op, token, live, crashes, excused>>

(* A bug: the catch that keeps the chain going hides the error as well. *)
SaveFailsQuietly ==
  /\ queue # <<>>
  /\ Answered(Head(queue), "ok")
  /\ UNCHANGED <<vault, temp, op, token, live, crashes, excused>>

(* An error of the file system at any stage; the chain goes on. *)
SaveFails ==
  /\ queue # <<>>
  /\ Answered(Head(queue), "failed")
  /\ UNCHANGED <<vault, temp, op, token, live, crashes, excused>>

-----------------------------------------------------------------------------
(* The process dies, and the next one loads the vault.  A token that only   *)
(* the dead one had is lost.                                                *)
Crash ==
  /\ crashes < MaxCrashes /\ vault # Torn
  /\ crashes' = crashes + 1
  /\ memory' = vault
  /\ sealed' = Nothing /\ queue' = <<>>
  /\ pc' = [c \in Calls |-> IF pc[c] \in {"idle"} \cup Ended THEN pc[c] ELSE "lost"]
  /\ excused' = (excused \/ vault.token # live)
  /\ UNCHANGED <<vault, temp, op, token, live>>

-----------------------------------------------------------------------------
Provider(c) == Honours(c) \/ Refuses(c)
Hears(c)    == Refreshed(c) \/ RefreshFails(c)
Checked(c)  == Probed(c) \/ ProbeFails(c)
Save        == Seal \/ Write \/ Rename

Next ==
  \/ \E c \in Calls :
       Refresh(c) \/ Revoke(c) \/ Check(c)
         \/ Provider(c) \/ Hears(c) \/ AnswerLost(c) \/ Checked(c)
  \/ Save \/ SaveFails \/ Crash

(* fetch ends by its own timeouts, and the event loop resumes what can go on. *)
Spec ==
  /\ Init /\ [][Next]_vars
  /\ \A c \in Calls : WF_vars(Provider(c)) /\ WF_vars(Hears(c)) /\ WF_vars(Checked(c))
  /\ WF_vars(Save)

-----------------------------------------------------------------------------
(* What a call was told is in the vault and outlives the process: the        *)
(* revocation, the token of the refresh it sent or joined, the end of the    *)
(* grant.  A save that fails is told to its call, and to no other.           *)
AcknowledgedIsKept ==
  \A c \in Calls :
    pc[c] = "ok" =>
      /\ op[c] = "revoke"  => vault.revoked # "no"
      /\ op[c] = "refresh" => vault.token >= token[c]
      /\ op[c] = "check"   => c \notin vault.open

(* "a crash mid-write must not leave a vault that decrypts to half a file":  *)
(* the file under the vault's name is whole in every state, so the next      *)
(* process can load it.                                                      *)
VaultIsWhole == vault # Torn

(* The service does not spoil its own credential: a credential is revoked by *)
(* a refusal only if the provider withdrew it, or if a rotated token was     *)
(* lost on the way or with the process.  Refreshes that overlap never make   *)
(* one another's token stale.                                                *)
RefusalIsEarned == memory.revoked = "provider" => excused

(* Every call that was begun is answered, or lost with the process: also one *)
(* that joined another's refresh, and one whose save fails.                  *)
EveryCallEnds == \A c \in Calls : pc[c] # "idle" ~> pc[c] \in Ended
=============================================================================
