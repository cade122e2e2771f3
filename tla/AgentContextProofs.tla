------------------------- MODULE AgentContextProofs -------------------------
(***************************************************************************)
(* What the required roles are shown and what may be done with their       *)
(* answers, for every menu, ledger and limit.  The packet of an awaited    *)
(* role was built from the state it is compared with, because nothing      *)
(* between asking and answering writes what it was built from; and what    *)
(* was accepted at that state is still executable when it is executed.     *)
(***************************************************************************)
EXTENDS AgentContext, TLAPS, FiniteSetTheorems

\* The nodes from the first optional role to the execution, and those of them
\* that follow the Skeptic's menu.
Consulting == {"specialists", "hunter", "director", "skeptic", "skeptic_asked", "critic",
               "critic_asked", "act"}
Offering == {"skeptic_asked", "critic", "critic_asked", "act"}
Decided == {"critic", "critic_asked", "act"}

\* An action of the menu that is still within the number of tool calls.
Open(action) == action \in offered /\ (action = Stop \/ Version < MaxTools)

ContextInv ==
  /\ TypeOK
  /\ pc \in Consulting => Missing = {} /\ ~(Cardinality(Spent) >= MaxAdaptive)
  /\ pc \in Offering => offered = Available
  /\ pc = "skeptic_asked" => packet = PacketFor("skeptic", offered)
  /\ pc = "critic_asked" => packet = PacketFor("critic", offered)
  /\ pc \in Decided => proposal \in Requests /\ Open(proposal)
  /\ pc = "act" => /\ Selected(proposal, review) \in Adaptive
                   /\ Open(Selected(proposal, review))

-----------------------------------------------------------------------------
(* What Newest holds.                                                      *)

\* The newest k of a set of ledger positions are k at most: each is told apart
\* by the number of those above it.
LEMMA NewestIsBounded ==
  ASSUME NEW S, S \subseteq Nat, IsFiniteSet(S), NEW k \in Nat
  PROVE  IsFiniteSet(Newest(S, k)) /\ Cardinality(Newest(S, k)) <= k
<1> DEFINE Above(n) == {m \in S : m > n}
           f == [n \in Newest(S, k) |-> Cardinality(Above(n))]
<1>1. \A n \in S : IsFiniteSet(Above(n)) /\ Cardinality(Above(n)) \in Nat
  BY FS_Subset, FS_CardinalityType
<1>2. ASSUME NEW n \in S, NEW p \in S, n < p
      PROVE  Cardinality(Above(p)) < Cardinality(Above(n))
  <2>1. Above(p) \cup {p} \subseteq Above(n) /\ p \notin Above(p)
    <3>1. n \in Nat /\ p \in Nat /\ \A m \in S : m \in Nat /\ (m > p => m > n)
      BY <1>2
    <3>2. ~(p > p)
      BY <3>1
    <3>3. p > n
      BY <1>2, <3>1
    <3>4. p \notin Above(p) /\ p \in Above(n)
      BY <3>2, <3>3
    <3>5. \A m \in Above(p) : m \in Above(n)
      BY <3>1
    <3> QED BY <3>4, <3>5
  <2>2. /\ IsFiniteSet(Above(p) \cup {p})
        /\ Cardinality(Above(p) \cup {p}) = Cardinality(Above(p)) + 1
    BY <1>1, <2>1, FS_AddElement
  <2>3. Cardinality(Above(p) \cup {p}) <= Cardinality(Above(n))
    BY <1>1, <2>1, FS_Subset
  <2> QED BY <1>1, <2>2, <2>3
<1>3. f \in Injection(Newest(S, k), 0..(k - 1))
  <2>1. Newest(S, k) \subseteq S /\ \A n \in Newest(S, k) : Cardinality(Above(n)) < k
    BY DEF Newest
  <2> HIDE DEF Above
  <2>2. f \in [Newest(S, k) -> 0..(k - 1)]
    <3>1. \A n \in Newest(S, k) : Cardinality(Above(n)) \in 0..(k - 1)
      <4> TAKE n \in Newest(S, k)
      <4>1. Cardinality(Above(n)) \in Nat /\ Cardinality(Above(n)) < k
        BY <1>1, <2>1
      <4> QED BY <4>1
    <3> QED BY <3>1
  <2>3. ASSUME NEW n \in Newest(S, k), NEW p \in Newest(S, k), f[n] = f[p] PROVE n = p
    <3>1. n \in Nat /\ p \in Nat /\ n \in S /\ p \in S
      BY <2>1
    <3>2. Cardinality(Above(n)) = Cardinality(Above(p)) /\ Cardinality(Above(n)) \in Nat
      BY <1>1, <2>3, <3>1
    <3>3. ~(n < p) /\ ~(p < n)
      BY <1>2, <3>1, <3>2
    <3> QED BY <3>1, <3>3
  <2> QED BY <2>2, <2>3 DEF Injection, IsInjective
<1>4. IsFiniteSet(0..(k - 1)) /\ Cardinality(0..(k - 1)) = k
  BY FS_Interval
<1> QED BY <1>3, <1>4, FS_Injection

\* A packet holds the required records and fills up to its limit with others.
LEMMA ShownIsBounded ==
  ASSUME TypeOK
  PROVE  /\ Required \subseteq Shown /\ Shown \subseteq Evidence
         /\ Cardinality(Shown) <= RecentLimit \/ Shown = Required
<1> DEFINE others == Evidence \ Required
           room == IF Cardinality(Required) < RecentLimit
                   THEN RecentLimit - Cardinality(Required) ELSE 0
<1>1. /\ Required \subseteq Evidence /\ IsFiniteSet(Evidence) /\ Evidence \subseteq Nat
  <2>1. Evidence = 1..Len(ledger) /\ Len(ledger) \in Nat
    BY DEF TypeOK, Evidence
  <2> QED BY <2>1, FS_Interval DEF Required, CandidateRefs
<1>2. /\ IsFiniteSet(Required) /\ Cardinality(Required) \in Nat
      /\ IsFiniteSet(others) /\ others \subseteq Nat
  BY <1>1, FS_Subset, FS_CardinalityType
<1>3. room \in Nat
  BY <1>2, LimitsAssumption
<1>4. IsFiniteSet(Newest(others, room)) /\ Cardinality(Newest(others, room)) <= room
  BY <1>2, <1>3, NewestIsBounded
<1>5. Newest(others, room) \subseteq others
  BY DEF Newest
<1>6. Shown = Required \cup Newest(others, room)
  BY DEF Shown
<1>7. CASE Cardinality(Required) < RecentLimit
  <2>1. /\ IsFiniteSet(Required \cap Newest(others, room))
        /\ Cardinality(Required \cap Newest(others, room)) \in Nat
    BY <1>2, FS_Subset, FS_CardinalityType
  <2>2. Cardinality(Shown) = Cardinality(Required) + Cardinality(Newest(others, room))
                               - Cardinality(Required \cap Newest(others, room))
    BY <1>2, <1>4, <1>6, FS_Union
  <2>3. Cardinality(Newest(others, room)) \in Nat /\ room = RecentLimit - Cardinality(Required)
    BY <1>4, <1>7, FS_CardinalityType
  <2>4. Cardinality(Shown) <= RecentLimit
    BY <1>2, <1>4, <2>1, <2>2, <2>3, LimitsAssumption
  <2> QED BY <1>1, <1>5, <1>6, <2>4
<1>8. CASE ~(Cardinality(Required) < RecentLimit)
  <2>1. Newest(others, room) = {}
    <3>1. SUFFICES ASSUME NEW n \in Newest(others, room) PROVE FALSE
      OBVIOUS
    <3>2. Cardinality({m \in others : m > n}) < 0
      BY <1>8, <3>1 DEF Newest
    <3>3. Cardinality({m \in others : m > n}) \in Nat
      BY <1>2, FS_Subset, FS_CardinalityType
    <3> QED BY <3>2, <3>3
  <2> QED BY <1>1, <1>6, <2>1
<1> QED BY <1>7, <1>8

-----------------------------------------------------------------------------
(* Types.                                                                  *)

\* What the operators of a well-typed state are.
LEMMA CaseTypes ==
  ASSUME TypeOK
  PROVE  /\ Version \in Nat /\ Evidence = 1..Version /\ Evidence \subseteq Nat
         /\ \A n \in Evidence : ledger[n] \in Evidences
         /\ Available \subseteq Requests /\ Hypotheses \subseteq Decisive
<1>1. Version \in Nat /\ Evidence = 1..Version /\ \A n \in Evidence : ledger[n] \in Evidences
  BY DEF TypeOK, Version, Evidence
<1>2. Available \subseteq Requests
  BY DEF Available, Requests
<1>3. Hypotheses \subseteq Decisive
  BY DEF Hypotheses, Newest
<1> QED BY <1>1, <1>2, <1>3

\* A packet that is put together is a packet.
LEMMA PacketType ==
  ASSUME TypeOK, NEW role \in {"skeptic", "critic"}, NEW actions, actions \subseteq Requests
  PROVE  PacketFor(role, actions) \in Packets
<1>1. \A a \in actions : Option(a) \in Options
  <2> TAKE a \in actions
  <2>1. CostOf(a) \in Nat
    BY ToolsAssumption DEF CostOf, Requests
  <2> QED BY <2>1 DEF Option, Options
<1>2. Visible(role, Shown) \subseteq Nat
  BY CaseTypes, ShownIsBounded DEF Visible
<1>3. Briefs(role) \subseteq Specialists
  BY DEF Briefs, Specialists
<1>4. MaxRevisions - revisions \in Nat
  BY LimitsAssumption DEF TypeOK
<1> QED BY <1>1, <1>2, <1>3, <1>4, CaseTypes DEF PacketFor, Packets, TypeOK

\* Nothing of the case changes while the ledger and the budget stand.
LEMMA SameCase ==
  ASSUME UNCHANGED <<costLeft, ledger>>
  PROVE  /\ Available' = Available /\ Missing' = Missing /\ Version' = Version
         /\ Spent' = Spent
  BY DEF Available, Missing, Version, Spent, Done, Executed, Evidence

\* Nor does a packet while its other sources stand too.
LEMMA SamePacket ==
  ASSUME NEW role \in {"skeptic", "critic"}, UNCHANGED <<costLeft, ledger, briefs, revisions>>
  PROVE  PacketFor(role, offered)' = PacketFor(role, offered')
<1>1. Shown' = Shown
  BY DEF Shown, Required, CandidateRefs, Evidence
<1>2. Hypotheses' = Hypotheses /\ Version' = Version
  BY DEF Hypotheses, Evidence, Version
<1>3. Executed' = Executed /\ Done' = Done
  BY DEF Executed, Done, Evidence
<1>4. Briefs(role)' = Briefs(role)
  BY <1>2 DEF Briefs
<1>5. Visible(role, Shown)' = Visible(role, Shown)
  BY <1>1 DEF Visible
<1>6. {Option(a) : a \in offered}' = {Option(a) : a \in offered'}
  BY <1>3 DEF Option
<1> QED BY <1>2, <1>4, <1>5, <1>6 DEF PacketFor

\* A committed result keeps the types and leaves the consulting nodes.
LEMMA CommitKeeps ==
  ASSUME ContextInv, NEW t \in Tools, Commit(t), costLeft' \in Nat
  PROVE  ContextInv'
<1>1. PICK o \in Outcomes, s \in Sizes :
        ledger' = Append(ledger, [tool |-> t, status |-> o.status, code |-> o.code, size |-> s])
  BY DEF Commit
<1>2. [tool |-> t, status |-> o.status, code |-> o.code, size |-> s] \in Evidences
  BY DataAssumption DEF Evidences
<1>3. ledger' \in Seq(Evidences)
  BY <1>1, <1>2 DEF ContextInv, TypeOK
<1>4. /\ proposal' = None /\ review' = None /\ pc' = "evaluate"
      /\ UNCHANGED <<briefs, offered, packet, revisions>>
  BY DEF Commit
<1>5. TypeOK'
  BY <1>3, <1>4 DEF ContextInv, TypeOK
<1> QED BY <1>4, <1>5 DEF ContextInv, Consulting, Offering, Decided

\* A step that leaves the menu and the answers alone and asks nobody.
LEMMA MoveKeeps ==
  ASSUME ContextInv, UNCHANGED <<costLeft, ledger, offered, answers>>, briefs' \in [Specialists -> Nat],
         packet' \in Packets \cup {None},
         pc' \in {"baseline", "evaluate", "specialists", "hunter", "director", "skeptic",
                  "final", "closed", "raised"},
         pc' \in Consulting => Missing = {} /\ ~(Cardinality(Spent) >= MaxAdaptive)
  PROVE  ContextInv'
<1>1. TypeOK'
  BY DEF ContextInv, TypeOK, answers
<1>2. Missing' = Missing /\ Spent' = Spent
  BY SameCase
<1> QED BY <1>1, <1>2 DEF ContextInv, Offering, Decided

\* Asking a role puts its packet together from the state of that moment.
LEMMA AskKeeps ==
  ASSUME ContextInv, NEW role \in {"skeptic", "critic"}, Ask(role, offered'),
         offered' = Available, pc = role
  PROVE  ContextInv'
<1>0. /\ pc' \in {"raised", "skeptic_asked", "critic_asked"}
      /\ pc' = "skeptic_asked" => role = "skeptic" /\ packet' = PacketFor(role, offered')
      /\ pc' = "critic_asked" => role = "critic" /\ packet' = PacketFor(role, offered')
      /\ packet' = packet \/ packet' = PacketFor(role, offered')
      /\ UNCHANGED <<costLeft, ledger, briefs, answers>>
  BY DEF Ask
<1>1. offered' \subseteq Requests
  BY CaseTypes DEF ContextInv
<1>2. PacketFor(role, offered') \in Packets
  BY <1>1, PacketType DEF ContextInv
<1>3. TypeOK'
  BY <1>0, <1>1, <1>2 DEF ContextInv, TypeOK, answers
<1>4. Available' = Available /\ Missing' = Missing /\ Spent' = Spent /\ Version' = Version
  BY <1>0, SameCase
<1>5. PacketFor(role, offered)' = PacketFor(role, offered')
  BY <1>0, SamePacket DEF answers
<1>6. Missing = {} /\ ~(Cardinality(Spent) >= MaxAdaptive)
  BY DEF ContextInv, Consulting
<1>7. pc' \in Decided => proposal' \in Requests /\ Open(proposal)'
  <2>1. pc' \in Decided => role = "critic"
    BY <1>0 DEF Decided
  <2>2. role = "critic" => offered = Available /\ proposal \in Requests /\ Open(proposal)
    BY DEF ContextInv, Offering, Decided
  <2> QED BY <1>0, <1>4, <2>1, <2>2 DEF Open, answers
<1> QED BY <1>0, <1>3, <1>4, <1>5, <1>6, <1>7 DEF ContextInv, Offering

\* What is left of the menu once it was accepted.
LEMMA AcceptedIsOpen ==
  ASSUME ContextInv, NEW action, Allowed(action, offered), ~Unaffordable(action, offered),
         offered = Available
  PROVE  action \in Requests /\ Open(action)
<1>1. Version < MaxTools <=> ~(Version >= MaxTools)
  BY CaseTypes, LimitsAssumption DEF ContextInv
<1> QED BY <1>1, CaseTypes DEF ContextInv, Allowed, Unaffordable, Open

\* A valid answer of the Skeptic names an action of the menu.
LEMMA SkepticKeeps ==
  ASSUME ContextInv, NEW a, pc = "skeptic_asked", SkepticAnswers(a)
  PROVE  ContextInv'
<1>1. /\ UNCHANGED <<costLeft, ledger, briefs, offered, review, revisions>> /\ packet' = None
      /\ \/ SkepticVerdict(a) = "valid" /\ proposal' = a.action /\ pc' = "critic"
         \/ pc' = "closed" /\ UNCHANGED proposal
  BY DEF SkepticAnswers
<1>2. CASE pc' = "closed" /\ UNCHANGED proposal
  BY <1>1, <1>2, MoveKeeps DEF answers, ContextInv, TypeOK, Consulting
<1>3. CASE SkepticVerdict(a) = "valid" /\ proposal' = a.action /\ pc' = "critic"
  <2>1. Allowed(a.action, offered) /\ ~Unaffordable(a.action, offered)
    BY <1>3 DEF SkepticVerdict
  <2>2. a.action \in Requests /\ Open(a.action)
    BY <2>1, AcceptedIsOpen DEF ContextInv, Offering
  <2>3. TypeOK'
    BY <1>1, <1>3, <2>2 DEF ContextInv, TypeOK
  <2>4. Available' = Available /\ Missing' = Missing /\ Spent' = Spent /\ Version' = Version
    BY <1>1, SameCase
  <2> QED BY <1>1, <1>3, <2>2, <2>3, <2>4 DEF ContextInv, Consulting, Offering, Decided, Open
<1> QED BY <1>1, <1>2, <1>3

\* A valid answer of the Critic leaves an action of the menu to be executed.
LEMMA CriticKeeps ==
  ASSUME ContextInv, NEW a \in CriticAnswerSet, pc = "critic_asked", CriticAnswers(a)
  PROVE  ContextInv'
<1> DEFINE chosen == Selected(proposal, a)
<1>0. /\ proposal \in Requests /\ Open(proposal) /\ offered = Available
      /\ Missing = {} /\ ~(Cardinality(Spent) >= MaxAdaptive)
  BY DEF ContextInv, Offering, Decided, Consulting
<1>1. /\ UNCHANGED <<costLeft, ledger, briefs, offered, proposal>> /\ packet' = None
      /\ \/ /\ CriticVerdict(a) = "valid"
            /\ review' = [verdict |-> a.verdict, revised |-> a.revised]
            /\ revisions' = IF a.verdict = "REVISE" THEN revisions + 1 ELSE revisions
            /\ pc' = IF a.verdict = "VETO" \/ chosen = Stop THEN "final" ELSE "act"
         \/ pc' = "closed" /\ UNCHANGED <<review, revisions>>
  BY DEF CriticAnswers
<1>2. CASE pc' = "closed" /\ UNCHANGED <<review, revisions>>
  BY <1>1, <1>2, MoveKeeps DEF answers, ContextInv, TypeOK, Consulting
<1>3. CASE /\ CriticVerdict(a) = "valid"
           /\ review' = [verdict |-> a.verdict, revised |-> a.revised]
           /\ revisions' = IF a.verdict = "REVISE" THEN revisions + 1 ELSE revisions
           /\ pc' = IF a.verdict = "VETO" \/ chosen = Stop THEN "final" ELSE "act"
  <2>1. a.verdict = "REVISE" => /\ Allowed(a.revised, offered) /\ ~Unaffordable(a.revised, offered)
                                /\ ~(revisions >= MaxRevisions)
    BY <1>3 DEF CriticVerdict
  <2>2. chosen \in Requests /\ Open(chosen)
    BY <1>0, <2>1, AcceptedIsOpen DEF Selected
  <2>3. review' \in Reviews
    BY <1>3 DEF CriticAnswerSet, Reviews
  <2>4. revisions' \in 0..MaxRevisions
    BY <1>3, <2>1, LimitsAssumption DEF ContextInv, TypeOK
  <2>5. TypeOK'
    BY <1>1, <1>3, <2>3, <2>4 DEF ContextInv, TypeOK
  <2>6. Available' = Available /\ Missing' = Missing /\ Spent' = Spent /\ Version' = Version
    BY <1>1, SameCase
  <2>7. Selected(proposal', review') = chosen
    BY <1>1, <1>3 DEF Selected
  <2>8. Open(proposal)' = Open(proposal) /\ Open(Selected(proposal, review))' = Open(chosen)
    BY <1>1, <2>6, <2>7 DEF Open
  <2>9. pc' = "act" => chosen \in Adaptive
    BY <1>3, <2>2 DEF Requests
  <2> HIDE DEF chosen
  <2> QED BY <1>0, <1>1, <1>3, <2>2, <2>5, <2>6, <2>7, <2>8, <2>9
       DEF ContextInv, Consulting, Offering, Decided
<1> QED BY <1>1, <1>2, <1>3

-----------------------------------------------------------------------------
(* Results.                                                                *)

\* An action of the menu that was accepted is not refused when it is executed.
LEMMA OpenIsNotRefused ==
  ASSUME ContextInv, pc = "act"
  PROVE  ~Refused(Selected(proposal, review)) /\ Selected(proposal, review) \in Adaptive
                                              /\ Cost[Selected(proposal, review)] <= costLeft
<1> DEFINE t == Selected(proposal, review)
<1>1. /\ t \in Adaptive /\ t \in offered /\ (t = Stop \/ Version < MaxTools)
      /\ offered = Available /\ Missing = {} /\ ~(Cardinality(Spent) >= MaxAdaptive)
  BY DEF ContextInv, Consulting, Offering, Open
<1>2. t # Stop /\ Version < MaxTools /\ Version \in Nat /\ Cost[t] \in Nat /\ costLeft \in Nat
  BY <1>1, CaseTypes, ToolsAssumption DEF Tools, ContextInv, TypeOK
<1> HIDE DEF t
<1>3. Cost[t] <= costLeft /\ Needs[t] \subseteq Done /\ t \notin Executed
  BY <1>1, <1>2 DEF Available
<1>4. ~(Version >= MaxTools) /\ ~(Cost[t] > costLeft)
  BY <1>2, <1>3, LimitsAssumption
<1>5. ~Refused(t)
  BY <1>1, <1>3, <1>4 DEF Refused
<1> QED BY <1>1, <1>3, <1>5 DEF t

\* ContextInv is an invariant.
THEOREM Context_Invariant == Spec => []ContextInv
<1>1. Init => ContextInv
  BY LimitsAssumption DEF Init, ContextInv, TypeOK, Consulting, Offering, Decided
<1>2. ContextInv /\ [Next]_vars => ContextInv'
  <2> SUFFICES ASSUME ContextInv, [Next]_vars PROVE ContextInv'
    OBVIOUS
  <2>1. CASE RunMandatory
    <3>1. CASE Goto("baseline", "closed")
      BY <3>1, MoveKeeps DEF Goto, answers, ContextInv, TypeOK, Consulting
    <3>2. CASE (\E t \in Runnable : Commit(t)) /\ UNCHANGED costLeft
      BY <3>2, CommitKeeps DEF Runnable, Missing, Tools, ContextInv, TypeOK
    <3> QED BY <2>1, <3>1, <3>2 DEF RunMandatory
  <2>2. CASE Evaluate
    <3>1. /\ AfterResult \in {"closed", "baseline", "final", "specialists"}
          /\ AfterResult = "specialists" => Missing = {} /\ ~(Cardinality(Spent) >= MaxAdaptive)
      BY DEF AfterResult
    <3> QED BY <2>2, <3>1, MoveKeeps DEF Evaluate, Goto, answers, ContextInv, TypeOK, Consulting
  <2>3. ASSUME NEW members, NEW here \in {"specialists", "hunter", "director"},
               NEW there \in {"hunter", "director", "skeptic"}, Consult(members, here, there)
        PROVE  ContextInv'
    <3>1. briefs' \in [Specialists -> Nat]
      <4>1. Version \in Nat /\ briefs \in [Specialists -> Nat]
        BY CaseTypes DEF ContextInv, TypeOK
      <4> QED BY <2>3, <4>1 DEF Consult
    <3> QED BY <2>3, <3>1, MoveKeeps DEF Consult, answers, ContextInv, TypeOK, Consulting
  <2>4. CASE ConsultSpecialists \/ ConsultHunter \/ ConsultDirector
    BY <2>3, <2>4 DEF ConsultSpecialists, ConsultHunter, ConsultDirector
  <2>5. CASE AskSkeptic
    BY <2>5, AskKeeps DEF AskSkeptic
  <2>6. CASE AskCritic
    BY <2>6, AskKeeps DEF AskCritic, ContextInv, Offering
  <2>7. CASE GiveUp
    BY <2>7, MoveKeeps DEF GiveUp, Goto, answers, ContextInv, TypeOK, Consulting
  <2>8. CASE pc = "skeptic_asked" /\ \E a \in SkepticAnswerSet : SkepticAnswers(a)
    BY <2>8, SkepticKeeps
  <2>9. CASE pc = "critic_asked" /\ \E a \in CriticAnswerSet : CriticAnswers(a)
    BY <2>9, CriticKeeps
  <2>10. CASE RunAdaptive
    <3> DEFINE t == Selected(proposal, review)
    <3>1. pc = "act" /\ ~Refused(t) /\ t \in Adaptive /\ Cost[t] <= costLeft
      BY <2>10, OpenIsNotRefused DEF RunAdaptive
    <3>2. Commit(t) /\ costLeft' = costLeft - Cost[t]
      BY <2>10, <3>1 DEF RunAdaptive
    <3> HIDE DEF t
    <3>3. costLeft' \in Nat
      BY <3>1, <3>2, ToolsAssumption DEF ContextInv, TypeOK
    <3> QED BY <3>1, <3>2, <3>3, CommitKeeps DEF Tools
  <2>11. CASE Finalize
    BY <2>11, MoveKeeps DEF Finalize, Goto, answers, ContextInv, TypeOK, Consulting
  <2>12. CASE UNCHANGED vars
    <3>1. TypeOK'
      BY <2>12 DEF vars, answers, ContextInv, TypeOK
    <3>2. Available' = Available /\ Missing' = Missing /\ Spent' = Spent /\ Version' = Version
      BY <2>12, SameCase DEF vars
    <3>3. \A role \in {"skeptic", "critic"} : PacketFor(role, offered)' = PacketFor(role, offered)
      BY <2>12, SamePacket DEF vars, answers
    <3> QED BY <2>12, <3>1, <3>2, <3>3 DEF vars, answers, ContextInv, Open
  <2> QED BY <2>1, <2>2, <2>4, <2>5, <2>6, <2>7, <2>8, <2>9, <2>10, <2>11, <2>12 DEF Next
<1> QED BY <1>1, <1>2, PTL DEF Spec

\* Type correctness: TypeOK.
THEOREM Type_Correct == Spec => []TypeOK
<1>1. ContextInv => TypeOK
  BY DEF ContextInv
<1> QED BY <1>1, Context_Invariant, PTL

\* A required role looks at the whole case as it stands: PacketShowsTheCase.
THEOREM Packet_ShowsTheCase == Spec => []PacketShowsTheCase
<1>1. ContextInv => PacketShowsTheCase
  <2> SUFFICES ASSUME ContextInv, Asked PROVE PacketShowsTheCase
    BY DEF PacketShowsTheCase
  <2>1. PICK role \in {"skeptic", "critic"} : packet = PacketFor(role, offered)
    BY DEF ContextInv, Asked
  <2>2. packet.visible = Shown
    BY <2>1 DEF PacketFor, Visible
  <2>3. \A n \in Evidence :
          ledger[n].code \in Decisive \cup Weak \/ n \in CandidateRefs => n \in Required
    BY DEF Required, DecisionCritical, Decisive, Rejecting, Weak
  <2>4. packet.version = Version /\ packet.units = costLeft /\ packet.briefs = Briefs(role)
    BY <2>1 DEF PacketFor
  <2>5. \A r \in Briefs(role) : briefs[r] = Version
    BY DEF Briefs
  <2> QED BY <2>2, <2>3, <2>4, <2>5, ShownIsBounded DEF PacketShowsTheCase, ContextInv
<1> QED BY <1>1, Context_Invariant, PTL

\* What is offered is accepted and what is accepted runs: MenuIsHonest.
THEOREM Menu_IsHonest == Spec => []MenuIsHonest
<1>1. ContextInv => AcceptedRuns
  BY OpenIsNotRefused DEF AcceptedRuns
<1>2. ContextInv => CompliantIsAccepted
  <2> SUFFICES ASSUME ContextInv, Version < MaxTools, pc \in {"skeptic_asked", "critic_asked"}
               PROVE  CompliantIsAccepted
    BY DEF CompliantIsAccepted
  <2>1. /\ offered = Available /\ Missing = {} /\ Version \in Nat /\ costLeft \in Nat
        /\ revisions \in 0..MaxRevisions /\ ~(Version >= MaxTools)
    BY CaseTypes, LimitsAssumption DEF ContextInv, Offering, Consulting, TypeOK
  <2>2. PICK role \in {"skeptic", "critic"} : packet = PacketFor(role, offered)
    BY DEF ContextInv
  <2>3. /\ packet.options = {Option(a) : a \in offered} /\ packet.version = Version
        /\ packet.units = costLeft /\ packet.revisions = MaxRevisions - revisions
    BY <2>2 DEF PacketFor
  <2>4. ASSUME NEW o \in packet.options
        PROVE  /\ o.action \in Requests /\ o.cost = CostOf(o.action)
               /\ Allowed(o.action, offered) /\ ~Unaffordable(o.action, offered)
    <3>1. PICK a \in offered : o = Option(a)
      BY <2>3
    <3>2. o.action = a /\ o.cost = CostOf(a) /\ a \in Requests
      BY <2>1, <3>1, CaseTypes DEF Option, ContextInv
    <3>3. a # Stop => /\ a \in Adaptive /\ Cost[a] <= costLeft /\ Needs[a] \subseteq Done
                      /\ a \notin Executed
      BY <2>1, <3>1 DEF Available
    <3>4. a \in Adaptive => Cost[a] \in Nat
      BY ToolsAssumption
    <3> QED BY <2>1, <3>1, <3>2, <3>3, <3>4 DEF Allowed, Unaffordable
  <2>5. ASSUME NEW cites \in (SUBSET packet.visible) \ {{}} PROVE Cites(cites, packet)
    BY DEF Cites
  <2>6. ASSUME NEW o \in packet.options, NEW cites \in (SUBSET packet.visible) \ {{}}
        PROVE  SkepticVerdict([version |-> packet.version, action |-> o.action, cost |-> o.cost,
                               units |-> packet.units, cites |-> cites]) = "valid"
    BY <2>3, <2>4, <2>5, <2>6 DEF SkepticVerdict, SkepticDeclares
  <2>7. ASSUME NEW o \in packet.options, packet.revisions > 0,
               NEW cites \in (SUBSET packet.visible) \ {{}}
        PROVE  CriticVerdict([version |-> packet.version, reviews |-> proposal,
                              verdict |-> "REVISE", revised |-> o.action,
                              cites |-> cites]) = "valid"
    <3>1. ~(revisions >= MaxRevisions)
      BY <2>1, <2>3, <2>7, LimitsAssumption
    <3> QED BY <2>3, <2>4, <2>5, <3>1 DEF CriticVerdict
  <2> QED BY <2>6, <2>7 DEF CompliantIsAccepted
<1> QED BY <1>1, <1>2, Context_Invariant, PTL DEF MenuIsHonest
=============================================================================
