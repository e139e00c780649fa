----------------------------- MODULE Coordinator -----------------------------
(***************************************************************************)
(* How one search request is resolved (src/agents/coordinator_agent.py):   *)
(* two search agents at once, their candidates pooled, merged and checked  *)
(* again, two evaluations of every candidate at once, one ranking.         *)
(*                                                                         *)
(* Searches run in worker processes or in threads and may raise; one that  *)
(* raises fails the request, and the other one is not awaited.  A worker   *)
(* process that dies breaks the pool for good.  Evaluations end in any     *)
(* order and fail one by one.                                              *)
(*                                                                         *)
(* A plan is [legs, moving]: its tickets and its minutes of moving time.   *)
(* What the agents may propose is a parameter; that plans keep the limits  *)
(* of the query is the agents' task, and checked again here.               *)
(***************************************************************************)
EXTENDS Fares, SequencesExt

CONSTANTS
  SamePlans, DiffPlans,  \* the lists of plans an agent may propose
  Query,                 \* maxTransfers, class, hard, region, passengers
  RunDays,               \* days on which a train starts, per train
  Region,                \* station codes inside the query's region
  Rakes                  \* coaches of a train in order; <<>> is unknown

Agents   == {"same", "diff"}
Stage2   == {"seat", "fare"}
Pending  == -3
Failed   == -2
Workers  == 2

\* The same-train agent is asked for one transfer at most.
SameTrainTransfers == IF Query.maxTransfers > 1 THEN 1 ELSE Query.maxTransfers

ASSUME QueryAssumption ==
  /\ Query.maxTransfers \in Nat /\ Query.passengers \in Nat \ {0}
  /\ {Query.hard, Query.region} \subseteq BOOLEAN

VARIABLES
  pooled,     \* searches run in worker processes, not in threads
  stage,      \* idle, searching, scoring, closing, answered or failed
  search,     \* the task of each agent: idle, running, raised, or done
  found,      \* what an agent's search found
  survivors,  \* pooled plans after merging and pruning
  evals,      \* the evaluations of each survivor
  answer,     \* the FinalRecommendation
  broken,     \* a worker process has died
  orphans     \* how many searches run on for requests that have failed

vars == <<pooled, stage, search, found, survivors, evals, answer, broken, orphans>>

-----------------------------------------------------------------------------
\* What a plan is

Transfers(plan) == Len(plan.legs) - 1
Wall(plan)      == Last(plan.legs).arr - plan.legs[1].dep
LegsHeld(plan, status) == Cardinality({i \in DOMAIN plan.legs : plan.legs[i].status = status})
Risk(plan)      == (40 * LegsHeld(plan, "RAC") + 110 * LegsHeld(plan, "WAITLIST")) * Rupee

Signature(plan) ==
  [i \in DOMAIN plan.legs |->
     LET t == plan.legs[i] IN <<t.train, t.from, t.to, t.run, t.class, t.status>>]

Proposed ==
  [same |-> {plans \in SamePlans : \A i \in DOMAIN plans : Transfers(plans[i]) <= SameTrainTransfers},
   diff |-> DiffPlans]

-----------------------------------------------------------------------------
\* The two evaluations, and what stands in for them when they fail

Known(rake, c) == \E p \in DOMAIN rake : rake[p] = c
Place(rake, c) == CHOOSE p \in DOMAIN rake : rake[p] = c /\ \A q \in 1..(p - 1) : rake[q] # c
Apart(rake, a, b) == IF Place(rake, a) < Place(rake, b) THEN Place(rake, b) - Place(rake, a)
                     ELSE Place(rake, a) - Place(rake, b)

\* Minutes' worth of walking along a train: ten coaches if it is not known.
Walk(train, a, b) ==
  2 * IF Known(Rakes[train], a) /\ Known(Rakes[train], b) THEN Apart(Rakes[train], a, b) ELSE 10

AtNight(minute) == LET hour == (minute \div 60) % 24 IN hour >= 22 \/ hour < 5

TransferPenalty(prev, next) ==
  (IF prev.train = next.train THEN Walk(prev.train, prev.coach, next.coach) ELSE 20)
    + (IF AtNight(next.dep) THEN 30 ELSE 0)

SeatPenalty(plan) ==
  SumFunction([i \in 1..Transfers(plan) |->
           IF plan.legs[i].to = plan.legs[i + 1].from
           THEN TransferPenalty(plan.legs[i], plan.legs[i + 1]) ELSE 0])

\* An evaluator failure must not make a connection look free.
FailedPenalty(plan) == 100 * Transfers(plan)

\* What the agents answer for each plan.
Plans == UNION {Range(plans) : plans \in SamePlans \cup DiffPlans}

\* What the two searches see to: tickets are joined end to end, on trains that
\* call there, and every time is known.
ASSUME PlansAssumption ==
  /\ SamePlans \cup DiffPlans \subseteq Seq(Plans)
  /\ \A plan \in Plans :
       /\ plan.moving \in Nat /\ plan.legs # <<>> /\ plan.legs \in Seq(Range(plan.legs))
       /\ \A i \in DOMAIN plan.legs :
            LET leg == plan.legs[i]
            IN  /\ leg.train \in DOMAIN Routes \cap DOMAIN Rakes
                /\ CallsAt(leg.train, leg.from) /\ CallsAt(leg.train, leg.to)
                /\ leg.dep \in Nat /\ leg.arr \in Nat
                /\ i > 1 => leg.from = plan.legs[i - 1].to
  /\ \A train \in DOMAIN Rakes : Rakes[train] \in Seq(Range(Rakes[train]))

Result ==
  [a \in Stage2 |-> [plan \in Plans |->
     IF a = "seat" THEN SeatPenalty(plan) ELSE TotalFare(plan.legs, Query.passengers)]]

Scored(plan, eval) ==
  LET layover == Wall(plan) - plan.moving
  IN  [plan     |-> plan,
       degraded |-> {a \in Stage2 : eval[a] = Failed},
       penalty  |-> IF eval.seat = Failed THEN FailedPenalty(plan) ELSE eval.seat,
       fare     |-> IF eval.fare = Failed THEN NoFare ELSE eval.fare,
       layover  |-> IF eval.fare = Failed /\ layover < 0 THEN 0 ELSE layover]

-----------------------------------------------------------------------------
\* The ranking and the Pareto front

Greatest(S) == IF S = {} THEN 0 ELSE CHOOSE x \in S : \A y \in S : y <= x

\* A fare that is missing counts as the highest one known among the entries.
ImputedFare(fares)   == Greatest(fares \ {NoFare})
FareIn(imputed, e)   == IF e.fare = NoFare THEN imputed ELSE e.fare
FaresOf(entries)     == {entries[i].fare : i \in DOMAIN entries}

FinalScore(imputed, e) ==
  (2 * e.plan.moving + 2 * e.penalty + e.layover) * Rupee
    + FareIn(imputed, e) + Risk(e.plan)

\* Fault: the score alone.
SortKeyScore(score, e, i) == << score, Transfers(e.plan), i >>

\* An unknown fare comes last among equals.  The place of a candidate ends its
\* key: the sort is stable.
SortKey(score, e, i) ==
  << IF e.degraded = {} THEN 0 ELSE 1, score, Transfers(e.plan),
     IF e.fare = NoFare THEN 1 ELSE 0, e.fare, Wall(e.plan), i >>

Less(a, b) == \E k \in DOMAIN a : a[k] < b[k] /\ \A m \in 1..(k - 1) : a[m] = b[m]

Objectives(imputed, e) == << FareIn(imputed, e), Wall(e.plan), e.penalty, Risk(e.plan) >>

\* Fault: an equal counts as better.
DominatesOrEquals(a, b) == \A k \in DOMAIN a : a[k] <= b[k]

Dominates(a, b) == (\A k \in DOMAIN a : a[k] <= b[k]) /\ (\E k \in DOMAIN a : a[k] < b[k])

Complete(entries) == {i \in DOMAIN entries : entries[i].degraded = {}}

\* Only entries with complete evidence compete, with fares known among them.
ParetoFront(entries) ==
  LET imputed == ImputedFare({entries[i].fare : i \in Complete(entries)})
  IN  {i \in Complete(entries) :
         ~ \E j \in Complete(entries) \ {i} :
             Dominates(Objectives(imputed, entries[j]), Objectives(imputed, entries[i]))}

Scores(entries) ==
  [i \in DOMAIN entries |-> FinalScore(ImputedFare(FaresOf(entries)), entries[i])]

\* The order of the entries, as pairs of their places.
Better(entries, scores) ==
  {p \in (DOMAIN entries) \X (DOMAIN entries) :
     Less(SortKey(scores[p[1]], entries[p[1]], p[1]), SortKey(scores[p[2]], entries[p[2]], p[2]))}

\* rank_candidates: in the order given, with the marks of the front.
Ranked(entries, scores, order) ==
  [p \in DOMAIN order |->
     [entry |-> entries[order[p]], score |-> scores[order[p]],
      pareto |-> order[p] \in ParetoFront(entries)]]

-----------------------------------------------------------------------------
\* The hard constraints, checked again although both searches keep them.

OnItsDays(leg) == leg.run \in RunDays[leg.train]
InRegion(leg)  == {leg.from, leg.to} \subseteq Region

MeetsHardConstraints(plan) ==
  /\ Query.hard => \A i \in DOMAIN plan.legs : plan.legs[i].class = Query.class
  /\ Transfers(plan) <= Query.maxTransfers
  /\ Query.region => \A i \in DOMAIN plan.legs : InRegion(plan.legs[i])
  /\ \A i \in DOMAIN plan.legs : OnItsDays(plan.legs[i])

\* Fault: merging leaves out both.
DeduplicatedAway(plans) ==
  SelectSeq(plans, LAMBDA p : Cardinality({i \in DOMAIN plans : Signature(plans[i]) = Signature(p)}) = 1)

\* Plans with the same signature are shown once; the first one is kept.
Deduplicated(plans) ==
  Picked(plans, {i \in DOMAIN plans :
                   \A j \in 1..(i - 1) : Signature(plans[j]) # Signature(plans[i])})

\* The pooled plans that the hard constraints leave.
Pruned(plans) == Picked(plans, {i \in DOMAIN plans : MeetsHardConstraints(plans[i])})

-----------------------------------------------------------------------------
\* One request

NoAnswer == [found |-> FALSE, options |-> <<>>, total |-> 0, pruned |-> 0, merged |-> 0]
NotEvaluated == [a \in Stage2 |-> Pending]

Init ==
  /\ pooled \in BOOLEAN
  /\ stage = "idle"
  /\ search = [a \in Agents |-> "idle"]
  /\ found = [a \in Agents |-> <<>>]
  /\ survivors = <<>> /\ evals = <<>> /\ answer = NoAnswer
  /\ broken = FALSE /\ orphans = 0

\* resolve() starts both searches; a broken pool takes no more of them.
Announce ==
  /\ stage \in {"idle", "answered", "failed"}
  /\ stage' = "searching"
  /\ search' = [a \in Agents |-> IF broken THEN "raised" ELSE "running"]
  /\ found' = [a \in Agents |-> <<>>]
  /\ survivors' = <<>> /\ evals' = <<>> /\ answer' = NoAnswer
  /\ UNCHANGED <<pooled, broken, orphans>>

\* The workers may all be busy with searches that no one waits for.
Propose(a) ==
  /\ stage = "searching" /\ search[a] = "running" /\ orphans < Workers
  /\ \E plans \in Proposed[a] : found' = [found EXCEPT ![a] = plans]
  /\ search' = [search EXCEPT ![a] = "done"]
  /\ UNCHANGED <<pooled, stage, survivors, evals, answer, broken, orphans>>

\* Fault: every search is given a process of its own.
SearchRaisesAnyway(a) ==
  /\ stage = "searching" /\ search[a] = "running"
  /\ search' = [search EXCEPT ![a] = "raised"]
  /\ UNCHANGED <<pooled, stage, found, survivors, evals, answer, broken, orphans>>

SearchRaises(a) ==
  /\ stage = "searching" /\ search[a] = "running" /\ orphans < Workers
  /\ search' = [search EXCEPT ![a] = "raised"]
  /\ UNCHANGED <<pooled, stage, found, survivors, evals, answer, broken, orphans>>

\* Every future of the pool is given the same error.
WorkerDies ==
  /\ pooled /\ ~ broken
  /\ broken' = TRUE /\ orphans' = 0
  /\ search' = [a \in Agents |-> IF stage = "searching" /\ search[a] = "running" THEN "raised" ELSE search[a]]
  /\ UNCHANGED <<pooled, stage, found, survivors, evals, answer>>

\* The first search that raises ends the request.  The loop is closed by
\* asyncio.run, which waits for threads and not for worker processes.
GatherFails ==
  /\ stage = "searching" /\ \E a \in Agents : search[a] = "raised"
  /\ LET left == {a \in Agents : search[a] = "running"}
     IN  /\ orphans' = orphans + Cardinality(left)
         /\ stage' = IF pooled \/ left = {} THEN "failed" ELSE "closing"
  /\ UNCHANGED <<pooled, search, found, survivors, evals, answer, broken>>

OrphanEnds ==
  /\ orphans > 0
  /\ orphans' = orphans - 1
  /\ stage' = IF stage = "closing" /\ orphans' = 0 THEN "failed" ELSE stage
  /\ UNCHANGED <<pooled, search, found, survivors, evals, answer, broken>>

\* Both searches are done: pool, merge, check again.  Without a plan left the
\* request is answered here.
Pool ==
  /\ stage = "searching" /\ \A a \in Agents : search[a] = "done"
  /\ \E all \in {found["same"] \o found["diff"]} :
     \E merged \in {Deduplicated(all)} :
     \E kept \in {Pruned(merged)} :
       /\ survivors' = kept
       /\ evals' = [i \in DOMAIN kept |-> NotEvaluated]
       /\ answer' = [NoAnswer EXCEPT !.total  = Len(all),
                                     !.merged = Len(all) - Len(merged),
                                     !.pruned = Len(merged) - Len(kept)]
       /\ stage' = IF kept = <<>> THEN "answered" ELSE "scoring"
  /\ UNCHANGED <<pooled, search, found, broken, orphans>>

Evaluate(i, a) ==
  /\ stage = "scoring" /\ evals[i][a] = Pending
  /\ \E outcome \in {Result[a][survivors[i]], Failed} : evals' = [evals EXCEPT ![i][a] = outcome]
  /\ UNCHANGED <<pooled, stage, search, found, survivors, answer, broken, orphans>>

\* What the gather returned, each result put to its candidate by position.
Entries == [i \in DOMAIN survivors |-> Scored(survivors[i], evals[i])]

\* Fault: an evaluation that failed is tried again, for ever.
RecommendRetrying ==
  /\ stage = "scoring"
  /\ \A i \in DOMAIN evals : \A a \in Stage2 : evals[i][a] # Pending
  /\ IF \A i \in DOMAIN evals : \A a \in Stage2 : evals[i][a] # Failed
     THEN /\ answer' = [answer EXCEPT !.found = TRUE]
          /\ stage' = "answered" /\ evals' = evals
     ELSE /\ evals' = [i \in DOMAIN evals |-> NotEvaluated]
          /\ UNCHANGED <<stage, answer>>
  /\ UNCHANGED <<pooled, search, found, survivors, broken, orphans>>

Recommend ==
  /\ stage = "scoring"
  /\ \A i \in DOMAIN evals : \A a \in Stage2 : evals[i][a] # Pending
  /\ \E entries \in {Entries} :
     \E scores \in {Scores(entries)} :
     \E better \in {Better(entries, scores)} :
     \E order \in {Listing(DOMAIN entries, better)} :
       answer' = [answer EXCEPT !.found = TRUE, !.options = Ranked(entries, scores, order)]
  /\ stage' = "answered"
  /\ UNCHANGED <<pooled, search, found, survivors, evals, broken, orphans>>

Next ==
  \/ Announce
  \/ \E a \in Agents : Propose(a) \/ SearchRaises(a)
  \/ OrphanEnds \/ WorkerDies \/ GatherFails \/ Pool
  \/ \E i \in DOMAIN evals, a \in Stage2 : Evaluate(i, a)
  \/ Recommend

Spec == Init /\ [][Next]_vars

\* A search ends when its budget of expansions and seconds is spent, an
\* evaluation is a handful of lookups, and the event loop runs what is ready.
Fairness ==
  /\ \A a \in Agents : WF_vars(Propose(a) \/ SearchRaises(a))
  /\ WF_vars(OrphanEnds) /\ WF_vars(GatherFails) /\ WF_vars(Pool) /\ WF_vars(Recommend)
  /\ WF_vars(\E i \in DOMAIN evals, a \in Stage2 : Evaluate(i, a))

FairSpec == Spec /\ Fairness

-----------------------------------------------------------------------------
\* Properties

TypeOK ==
  /\ pooled \in BOOLEAN /\ broken \in BOOLEAN /\ orphans \in 0..Workers
  /\ stage \in {"idle", "searching", "scoring", "closing", "answered", "failed"}
  /\ search \in [Agents -> {"idle", "running", "raised", "done"}]
  /\ DOMAIN evals = DOMAIN survivors
  /\ \A i \in DOMAIN evals : evals[i] \in [Stage2 -> Nat \cup {Pending, Failed, NoFare}]

Options == answer.options

\* Every plan that either agent found and that keeps the limits of the query
\* is offered, once, whatever evaluation fails, and the counts shown with the
\* answer account for the rest.
NothingLost ==
  stage = "answered" =>
    LET all == found["same"] \o found["diff"]
    IN  /\ \A i \in DOMAIN all : MeetsHardConstraints(all[i]) =>
             Cardinality({p \in DOMAIN Options :
                Signature(Options[p].entry.plan) = Signature(all[i])}) = 1
        /\ answer.total = Len(all)
        /\ answer.total = Len(Options) + answer.merged + answer.pruned

\* An option whose evaluation failed is never listed before one with complete
\* evidence and never marked as Pareto-optimal.
EvidenceFirst ==
  \A p, q \in DOMAIN Options :
    Options[p].entry.degraded # {} =>
      /\ ~ Options[p].pareto
      /\ Options[q].entry.degraded = {} => q < p

\* The front leaves nobody without an answer: every complete option is on it
\* or is dominated by one that is.
FrontCovers ==
  LET entries == [p \in DOMAIN Options |-> Options[p].entry]
      imputed == ImputedFare({entries[p].fare : p \in Complete(entries)})
  IN  \A p \in Complete(entries) : ~ Options[p].pareto =>
        \E q \in Complete(entries) :
          /\ Options[q].pareto
          /\ Dominates(Objectives(imputed, entries[q]), Objectives(imputed, entries[p]))

\* A change of seats on one train never costs less than the ride it replaces:
\* what the passenger buys with it is a berth.
SplitsCostMore ==
  \A p, q \in DOMAIN Options :
    LET direct == Options[p].entry
        split  == Options[q].entry
        ride   == direct.plan.legs[1]
    IN  /\ Transfers(direct.plan) = 0
        /\ Head(split.plan.legs).from = ride.from /\ Last(split.plan.legs).to = ride.to
        /\ Transfers(split.plan) > 0
        /\ \A i \in DOMAIN split.plan.legs :
             split.plan.legs[i].train = ride.train /\ split.plan.legs[i].class = ride.class
        /\ NoFare \notin {direct.fare, split.fare}
        => direct.fare < split.fare

\* Every request is answered or fails.
Resolved == stage = "searching" ~> stage \in {"answered", "failed"}
=============================================================================
