------------------------------ MODULE MCUpkeep ------------------------------
(* What must come to an end by itself: a queued picture settles, and a        *)
(* session that expired is pruned.  The two keep no state in common, so a     *)
(* behaviour is one of either while the other rests in an initial state.      *)
EXTENDS MCPreviewQueue

CONSTANTS Users, Tokens, Sessions, Requests, Passwords, ActivationTtl, SessionTtl, Slide, MaxHours

VARIABLES part, hours, users, tokens, sess, req

Access == INSTANCE Accounts WITH MaxNow <- MaxHours, now <- hours

accessVars == <<hours, users, tokens, sess, req>>

(* A part that rests does so in one of its initial states.                    *)
UpkeepInit ==
  /\ part \in {"queue", "access"}
  /\ Init /\ Access!Init
  /\ part = "queue" \/ \A f \in Files : row[f].by = ClassifierVersion /\ pv[f] = NoPreview
  /\ part = "access" \/ users = [u \in Users |-> Access!NoUser]

QueuePart == part = "queue" /\ LiveNext /\ UNCHANGED <<part, accessVars>>
AccessPart == part = "access" /\ Access!Next /\ UNCHANGED <<part, vars>>

(* Both have the fairness of their own specifications.  Of what a resting     *)
(* part would have to do only a new batch is enabled: it is asked of the      *)
(* queue while the queue is at work.                                          *)
QueueFairness ==
  /\ WF_vars(LeaseTick)
  /\ \A r \in Runs : WF_vars(part = "queue" /\ BeginBatch(r)) /\ SF_vars(ClaimBatch(r))
  /\ \A r \in Runs, f \in Files :
       /\ WF_vars(Draw(r, f) \/ DrawFails(r, f))
       /\ WF_vars(StorePng(r, f) \/ StoreFails(r, f))
       /\ WF_vars(Finish(r, f) \/ FinishLost(r, f))

UpkeepSpec ==
  /\ UpkeepInit
  /\ [][QueuePart \/ AccessPart]_<<part, vars, accessVars>>
  /\ QueueFairness /\ WF_accessVars(Access!Prune)

ExpiredSessionIsPruned == Access!ExpiredSessionIsPruned
=============================================================================
