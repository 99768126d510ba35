---------------------------- MODULE SandboxProofs ----------------------------
(***************************************************************************)
(* Theorems of Sandbox, for every set of simulations, addresses and        *)
(* inspections and every number of retries.                                *)
(*                                                                         *)
(* Only the poller makes a simulation AML_APPROVED, at the end of its turn *)
(* and after reading all its tickets approved.  Queued and Working say     *)
(* that the simulation then has no other turn in this tick, so that no     *)
(* ticket can be added to it any more; Reviewed ties the tickets' rows to  *)
(* what UPay was told.                                                     *)
(***************************************************************************)
EXTENDS Sandbox, TLAPS

\* The tick's list has one entry for each of its simulations, all with
\* retries left.
Queued ==
  /\ \A e \in todo : retries[e[1]] < MaxRetries
  /\ \A e, f \in todo : e[1] = f[1] => e = f

\* The simulation the poller works on is off the list, and the tickets it
\* visits are that simulation's own.
Working ==
  /\ job.pc # "idle" => job.s \in Sim /\ \A e \in todo : e[1] # job.s
  /\ job.pc = "idle" => job.s = None
  /\ job.pc = "incr" => retries[job.s] < MaxRetries
  /\ job.left \subseteq Tickets(job.s)
  /\ job.pc \in {"setUuid", "submit", "mark"} => job.i \in Tickets(job.s)

Requesting == \A c \in Client : proc[c].pc # "idle" => proc[c].s \in Sim

\* What the poller has concluded about reviews holds.
Reviewed ==
  /\ approved \subseteq reviewed
  /\ job.pc = "mark" => job.i \in reviewed
  /\ job.pc = "approve" => AllApproved(job.s)

\* An approved simulation has no turn to come.
Done ==
  \A s \in Sim : status[s] = "AML_APPROVED" =>
    job.s # s /\ \A e \in todo : e[1] # s

IInv ==
  /\ TypeOK /\ Queued /\ Working /\ Requesting /\ Reviewed
  /\ Done /\ ApprovedIsReviewed

-------------------------------------------------------------------------------
(* The invariant: one lemma per conjunct, one step per action              *)

\* Types; the retry count stays within its budget because the poller only takes
\* simulations that are below it.
LEMMA TypeStep ==
  ASSUME TypeOK, Queued, Working, Requesting, [Next]_vars
  PROVE  TypeOK'
<1>. USE BoundAssumption DEF TypeOK, Status, Open, JobLabel, Queued, Working,
                             Tickets, Requesting, simVars, ticketVars, upayVars, jobVars
<1>1. ASSUME NEW i \in Inspection, DepositArrives(i) PROVE TypeOK'
  BY <1>1 DEF DepositArrives
<1>2. ASSUME NEW i \in Inspection, TicketAppears(i) PROVE TypeOK'
  BY <1>2 DEF TicketAppears
<1>3. ASSUME NEW c \in Client, InsertSimulation(c) PROVE TypeOK'
  BY <1>3 DEF InsertSimulation, CreateRow
<1>4. ASSUME NEW c \in Client, VerifyOwner(c) PROVE TypeOK'
  BY <1>4 DEF VerifyOwner
<1>5. ASSUME NEW c \in Client, SimulateSettlement(c) PROVE TypeOK'
  BY <1>5 DEF SimulateSettlement, NoRequest
<1>6. ASSUME NEW c \in Client, MarkSimulationFailed(c) PROVE TypeOK'
  BY <1>6 DEF MarkSimulationFailed, Fault, NoRequest
<1>7. CASE Tick
  BY <1>7 DEF Tick, PendingSimulations
<1>8. ASSUME NEW entry \in todo, Process(entry) PROVE TypeOK'
  BY <1>8 DEF Process, At
<1>9. CASE IncrSimulationRetry
  BY <1>9 DEF IncrSimulationRetry, Fault, Goto, Finish, At, Idle
<1>10. CASE DiscoverTickets
  BY <1>10 DEF DiscoverTickets, Fault, Goto, Finish, At, Idle, UpsertAMLTickets
<1>11. CASE ListAMLTickets
  BY <1>11 DEF ListAMLTickets, Fault, Finish, At, Idle, Tickets
<1>12. CASE SetPending
  BY <1>12 DEF SetPending, Fault, Goto
<1>13. CASE VisitTicket
  BY <1>13 DEF VisitTicket, Fault, Goto, At
<1>14. CASE SetAMLTicketUUID
  BY <1>14 DEF SetAMLTicketUUID, Fault, Goto, NextTicket, At
<1>15. CASE SubmitAMLReview
  BY <1>15 DEF SubmitAMLReview, Fault, Goto, NextTicket, At
<1>16. CASE MarkAMLTicketApproved
  BY <1>16 DEF MarkAMLTicketApproved, Fault, NextTicket, At
<1>17. CASE CheckApproved
  BY <1>17 DEF CheckApproved, Fault, Goto, Finish, At, Idle, AllApproved
<1>18. CASE SetApproved
  BY <1>18 DEF SetApproved, Fault, Finish, At, Idle
<1>19. CASE Crash
  BY <1>19 DEF Crash, Fault, At, Idle, NoRequest
<1>20. CASE UNCHANGED vars
  BY <1>20 DEF vars
<1>. QED BY <1>1, <1>2, <1>3, <1>4, <1>5, <1>6, <1>7, <1>8, <1>9, <1>10, <1>11,
            <1>12, <1>13, <1>14, <1>15, <1>16, <1>17, <1>18, <1>19, <1>20
     DEF Next, Poll

\* A tick lists each simulation once, and only a turn begun counts a retry.
LEMMA QueuedStep ==
  ASSUME TypeOK, Queued, Working, [Next]_vars
  PROVE  Queued'
<1>. USE DEF TypeOK, Queued, Working, simVars, ticketVars, upayVars, jobVars
<1>1. ASSUME NEW i \in Inspection, DepositArrives(i) PROVE Queued'
  BY <1>1 DEF DepositArrives
<1>2. ASSUME NEW i \in Inspection, TicketAppears(i) PROVE Queued'
  BY <1>2 DEF TicketAppears
<1>3. ASSUME NEW c \in Client, InsertSimulation(c) PROVE Queued'
  BY <1>3 DEF InsertSimulation, CreateRow
<1>4. ASSUME NEW c \in Client, VerifyOwner(c) PROVE Queued'
  BY <1>4 DEF VerifyOwner
<1>5. ASSUME NEW c \in Client, SimulateSettlement(c) PROVE Queued'
  BY <1>5 DEF SimulateSettlement, NoRequest
<1>6. ASSUME NEW c \in Client, MarkSimulationFailed(c) PROVE Queued'
  BY <1>6 DEF MarkSimulationFailed, Fault, NoRequest
<1>7. CASE Tick
  BY <1>7 DEF Tick, PendingSimulations
<1>8. ASSUME NEW entry \in todo, Process(entry) PROVE Queued'
  BY <1>8 DEF Process, At
<1>9. CASE IncrSimulationRetry
  BY <1>9 DEF IncrSimulationRetry, Fault, Goto, Finish, At, Idle
<1>10. CASE DiscoverTickets
  BY <1>10 DEF DiscoverTickets, Fault, Goto, Finish, At, Idle, UpsertAMLTickets
<1>11. CASE ListAMLTickets
  BY <1>11 DEF ListAMLTickets, Fault, Finish, At, Idle, Tickets
<1>12. CASE SetPending
  BY <1>12 DEF SetPending, Fault, Goto
<1>13. CASE VisitTicket
  BY <1>13 DEF VisitTicket, Fault, Goto, At
<1>14. CASE SetAMLTicketUUID
  BY <1>14 DEF SetAMLTicketUUID, Fault, Goto, NextTicket, At
<1>15. CASE SubmitAMLReview
  BY <1>15 DEF SubmitAMLReview, Fault, Goto, NextTicket, At
<1>16. CASE MarkAMLTicketApproved
  BY <1>16 DEF MarkAMLTicketApproved, Fault, NextTicket, At
<1>17. CASE CheckApproved
  BY <1>17 DEF CheckApproved, Fault, Goto, Finish, At, Idle, AllApproved
<1>18. CASE SetApproved
  BY <1>18 DEF SetApproved, Fault, Finish, At, Idle
<1>19. CASE Crash
  BY <1>19 DEF Crash, Fault, At, Idle, NoRequest
<1>20. CASE UNCHANGED vars
  BY <1>20 DEF vars
<1>. QED BY <1>1, <1>2, <1>3, <1>4, <1>5, <1>6, <1>7, <1>8, <1>9, <1>10, <1>11,
            <1>12, <1>13, <1>14, <1>15, <1>16, <1>17, <1>18, <1>19, <1>20
     DEF Next, Poll

\* Taking an entry removes it; the poller keeps its simulation to the end.
LEMMA WorkingStep ==
  ASSUME TypeOK, Queued, Working, [Next]_vars
  PROVE  Working'
<1>. USE NoneAssumption DEF TypeOK, Queued, Working, Tickets,
                            simVars, ticketVars, upayVars, jobVars
<1>1. ASSUME NEW i \in Inspection, DepositArrives(i) PROVE Working'
  BY <1>1 DEF DepositArrives
<1>2. ASSUME NEW i \in Inspection, TicketAppears(i) PROVE Working'
  BY <1>2 DEF TicketAppears
<1>3. ASSUME NEW c \in Client, InsertSimulation(c) PROVE Working'
  BY <1>3 DEF InsertSimulation, CreateRow
<1>4. ASSUME NEW c \in Client, VerifyOwner(c) PROVE Working'
  BY <1>4 DEF VerifyOwner
<1>5. ASSUME NEW c \in Client, SimulateSettlement(c) PROVE Working'
  BY <1>5 DEF SimulateSettlement, NoRequest
<1>6. ASSUME NEW c \in Client, MarkSimulationFailed(c) PROVE Working'
  BY <1>6 DEF MarkSimulationFailed, Fault, NoRequest
<1>7. CASE Tick
  BY <1>7 DEF Tick, PendingSimulations
<1>8. ASSUME NEW entry \in todo, Process(entry) PROVE Working'
  BY <1>8 DEF Process, At
<1>9. CASE IncrSimulationRetry
  BY <1>9 DEF IncrSimulationRetry, Fault, Goto, Finish, At, Idle
<1>10. CASE DiscoverTickets
  BY <1>10 DEF DiscoverTickets, Fault, Goto, Finish, At, Idle, UpsertAMLTickets
<1>11. CASE ListAMLTickets
  BY <1>11 DEF ListAMLTickets, Fault, Finish, At, Idle, Tickets
<1>12. CASE SetPending
  BY <1>12 DEF SetPending, Fault, Goto
<1>13. CASE VisitTicket
  BY <1>13 DEF VisitTicket, Fault, Goto, At
<1>14. CASE SetAMLTicketUUID
  BY <1>14 DEF SetAMLTicketUUID, Fault, Goto, NextTicket, At
<1>15. CASE SubmitAMLReview
  BY <1>15 DEF SubmitAMLReview, Fault, Goto, NextTicket, At
<1>16. CASE MarkAMLTicketApproved
  BY <1>16 DEF MarkAMLTicketApproved, Fault, NextTicket, At
<1>17. CASE CheckApproved
  BY <1>17 DEF CheckApproved, Fault, Goto, Finish, At, Idle, AllApproved
<1>18. CASE SetApproved
  BY <1>18 DEF SetApproved, Fault, Finish, At, Idle
<1>19. CASE Crash
  BY <1>19 DEF Crash, Fault, At, Idle, NoRequest
<1>20. CASE UNCHANGED vars
  BY <1>20 DEF vars
<1>. QED BY <1>1, <1>2, <1>3, <1>4, <1>5, <1>6, <1>7, <1>8, <1>9, <1>10, <1>11,
            <1>12, <1>13, <1>14, <1>15, <1>16, <1>17, <1>18, <1>19, <1>20
     DEF Next, Poll

\* A request at work has a simulation.
LEMMA RequestingStep ==
  ASSUME TypeOK, Requesting, [Next]_vars
  PROVE  Requesting'
<1>. USE DEF TypeOK, Requesting, simVars, ticketVars, upayVars, jobVars
<1>1. ASSUME NEW i \in Inspection, DepositArrives(i) PROVE Requesting'
  BY <1>1 DEF DepositArrives
<1>2. ASSUME NEW i \in Inspection, TicketAppears(i) PROVE Requesting'
  BY <1>2 DEF TicketAppears
<1>3. ASSUME NEW c \in Client, InsertSimulation(c) PROVE Requesting'
  BY <1>3 DEF InsertSimulation, CreateRow
<1>4. ASSUME NEW c \in Client, VerifyOwner(c) PROVE Requesting'
  BY <1>4 DEF VerifyOwner
<1>5. ASSUME NEW c \in Client, SimulateSettlement(c) PROVE Requesting'
  BY <1>5 DEF SimulateSettlement, NoRequest
<1>6. ASSUME NEW c \in Client, MarkSimulationFailed(c) PROVE Requesting'
  BY <1>6 DEF MarkSimulationFailed, Fault, NoRequest
<1>7. CASE Tick
  BY <1>7 DEF Tick, PendingSimulations
<1>8. ASSUME NEW entry \in todo, Process(entry) PROVE Requesting'
  BY <1>8 DEF Process, At
<1>9. CASE IncrSimulationRetry
  BY <1>9 DEF IncrSimulationRetry, Fault, Goto, Finish, At, Idle
<1>10. CASE DiscoverTickets
  BY <1>10 DEF DiscoverTickets, Fault, Goto, Finish, At, Idle, UpsertAMLTickets
<1>11. CASE ListAMLTickets
  BY <1>11 DEF ListAMLTickets, Fault, Finish, At, Idle, Tickets
<1>12. CASE SetPending
  BY <1>12 DEF SetPending, Fault, Goto
<1>13. CASE VisitTicket
  BY <1>13 DEF VisitTicket, Fault, Goto, At
<1>14. CASE SetAMLTicketUUID
  BY <1>14 DEF SetAMLTicketUUID, Fault, Goto, NextTicket, At
<1>15. CASE SubmitAMLReview
  BY <1>15 DEF SubmitAMLReview, Fault, Goto, NextTicket, At
<1>16. CASE MarkAMLTicketApproved
  BY <1>16 DEF MarkAMLTicketApproved, Fault, NextTicket, At
<1>17. CASE CheckApproved
  BY <1>17 DEF CheckApproved, Fault, Goto, Finish, At, Idle, AllApproved
<1>18. CASE SetApproved
  BY <1>18 DEF SetApproved, Fault, Finish, At, Idle
<1>19. CASE Crash
  BY <1>19 DEF Crash, Fault, At, Idle, NoRequest
<1>20. CASE UNCHANGED vars
  BY <1>20 DEF vars
<1>. QED BY <1>1, <1>2, <1>3, <1>4, <1>5, <1>6, <1>7, <1>8, <1>9, <1>10, <1>11,
            <1>12, <1>13, <1>14, <1>15, <1>16, <1>17, <1>18, <1>19, <1>20
     DEF Next, Poll

\* A row is only marked after UPay took the review.
LEMMA ReviewedStep ==
  ASSUME TypeOK, Working, Reviewed, [Next]_vars
  PROVE  Reviewed'
<1>. USE DEF TypeOK, Working, Reviewed, AllApproved, Tickets, simVars, ticketVars,
             upayVars, jobVars
<1>1. ASSUME NEW i \in Inspection, DepositArrives(i) PROVE Reviewed'
  BY <1>1 DEF DepositArrives
<1>2. ASSUME NEW i \in Inspection, TicketAppears(i) PROVE Reviewed'
  BY <1>2 DEF TicketAppears
<1>3. ASSUME NEW c \in Client, InsertSimulation(c) PROVE Reviewed'
  BY <1>3 DEF InsertSimulation, CreateRow
<1>4. ASSUME NEW c \in Client, VerifyOwner(c) PROVE Reviewed'
  BY <1>4 DEF VerifyOwner
<1>5. ASSUME NEW c \in Client, SimulateSettlement(c) PROVE Reviewed'
  BY <1>5 DEF SimulateSettlement, NoRequest
<1>6. ASSUME NEW c \in Client, MarkSimulationFailed(c) PROVE Reviewed'
  BY <1>6 DEF MarkSimulationFailed, Fault, NoRequest
<1>7. CASE Tick
  BY <1>7 DEF Tick, PendingSimulations
<1>8. ASSUME NEW entry \in todo, Process(entry) PROVE Reviewed'
  BY <1>8 DEF Process, At
<1>9. CASE IncrSimulationRetry
  BY <1>9 DEF IncrSimulationRetry, Fault, Goto, Finish, At, Idle
<1>10. CASE DiscoverTickets
  BY <1>10 DEF DiscoverTickets, Fault, Goto, Finish, At, Idle, UpsertAMLTickets
<1>11. CASE ListAMLTickets
  BY <1>11 DEF ListAMLTickets, Fault, Finish, At, Idle, Tickets
<1>12. CASE SetPending
  BY <1>12 DEF SetPending, Fault, Goto
<1>13. CASE VisitTicket
  BY <1>13 DEF VisitTicket, Fault, Goto, At
<1>14. CASE SetAMLTicketUUID
  BY <1>14 DEF SetAMLTicketUUID, Fault, Goto, NextTicket, At
<1>15. CASE SubmitAMLReview
  BY <1>15 DEF SubmitAMLReview, Fault, Goto, NextTicket, At
<1>16. CASE MarkAMLTicketApproved
  BY <1>16 DEF MarkAMLTicketApproved, Fault, NextTicket, At
<1>17. CASE CheckApproved
  BY <1>17 DEF CheckApproved, Fault, Goto, Finish, At, Idle, AllApproved
<1>18. CASE SetApproved
  BY <1>18 DEF SetApproved, Fault, Finish, At, Idle
<1>19. CASE Crash
  BY <1>19 DEF Crash, Fault, At, Idle, NoRequest
<1>20. CASE UNCHANGED vars
  BY <1>20 DEF vars
<1>. QED BY <1>1, <1>2, <1>3, <1>4, <1>5, <1>6, <1>7, <1>8, <1>9, <1>10, <1>11,
            <1>12, <1>13, <1>14, <1>15, <1>16, <1>17, <1>18, <1>19, <1>20
     DEF Next, Poll

\* The poller approves the simulation it is leaving, which is off the list.
LEMMA DoneStep ==
  ASSUME TypeOK, Queued, Working, Requesting, Done, [Next]_vars
  PROVE  Done'
<1>. USE NoneAssumption DEF TypeOK, Working, Queued, Requesting, Open, Done,
                            simVars, ticketVars, upayVars, jobVars
<1>1. ASSUME NEW i \in Inspection, DepositArrives(i) PROVE Done'
  BY <1>1 DEF DepositArrives
<1>2. ASSUME NEW i \in Inspection, TicketAppears(i) PROVE Done'
  BY <1>2 DEF TicketAppears
<1>3. ASSUME NEW c \in Client, InsertSimulation(c) PROVE Done'
  BY <1>3 DEF InsertSimulation, CreateRow
<1>4. ASSUME NEW c \in Client, VerifyOwner(c) PROVE Done'
  BY <1>4 DEF VerifyOwner
<1>5. ASSUME NEW c \in Client, SimulateSettlement(c) PROVE Done'
  BY <1>5 DEF SimulateSettlement, NoRequest
<1>6. ASSUME NEW c \in Client, MarkSimulationFailed(c) PROVE Done'
  BY <1>6 DEF MarkSimulationFailed, Fault, NoRequest
<1>7. CASE Tick
  BY <1>7 DEF Tick, PendingSimulations
<1>8. ASSUME NEW entry \in todo, Process(entry) PROVE Done'
  BY <1>8 DEF Process, At
<1>9. CASE IncrSimulationRetry
  BY <1>9 DEF IncrSimulationRetry, Fault, Goto, Finish, At, Idle
<1>10. CASE DiscoverTickets
  BY <1>10 DEF DiscoverTickets, Fault, Goto, Finish, At, Idle, UpsertAMLTickets
<1>11. CASE ListAMLTickets
  BY <1>11 DEF ListAMLTickets, Fault, Finish, At, Idle, Tickets
<1>12. CASE SetPending
  BY <1>12 DEF SetPending, Fault, Goto
<1>13. CASE VisitTicket
  BY <1>13 DEF VisitTicket, Fault, Goto, At
<1>14. CASE SetAMLTicketUUID
  BY <1>14 DEF SetAMLTicketUUID, Fault, Goto, NextTicket, At
<1>15. CASE SubmitAMLReview
  BY <1>15 DEF SubmitAMLReview, Fault, Goto, NextTicket, At
<1>16. CASE MarkAMLTicketApproved
  BY <1>16 DEF MarkAMLTicketApproved, Fault, NextTicket, At
<1>17. CASE CheckApproved
  BY <1>17 DEF CheckApproved, Fault, Goto, Finish, At, Idle, AllApproved
<1>18. CASE SetApproved
  BY <1>18 DEF SetApproved, Fault, Finish, At, Idle
<1>19. CASE Crash
  BY <1>19 DEF Crash, Fault, At, Idle, NoRequest
<1>20. CASE UNCHANGED vars
  BY <1>20 DEF vars
<1>. QED BY <1>1, <1>2, <1>3, <1>4, <1>5, <1>6, <1>7, <1>8, <1>9, <1>10, <1>11,
            <1>12, <1>13, <1>14, <1>15, <1>16, <1>17, <1>18, <1>19, <1>20
     DEF Next, Poll

\* Tickets are only added to the simulation the poller works on.
LEMMA ApprovedStep ==
  ASSUME TypeOK, Working, Requesting, Reviewed, Done, ApprovedIsReviewed, [Next]_vars
  PROVE  ApprovedIsReviewed'
<1>. USE DEF TypeOK, Working, Reviewed, Done, Requesting, ApprovedIsReviewed,
             Tickets, AllApproved, simVars, ticketVars, upayVars, jobVars
<1>1. ASSUME NEW i \in Inspection, DepositArrives(i) PROVE ApprovedIsReviewed'
  BY <1>1 DEF DepositArrives
<1>2. ASSUME NEW i \in Inspection, TicketAppears(i) PROVE ApprovedIsReviewed'
  BY <1>2 DEF TicketAppears
<1>3. ASSUME NEW c \in Client, InsertSimulation(c) PROVE ApprovedIsReviewed'
  BY <1>3 DEF InsertSimulation, CreateRow
<1>4. ASSUME NEW c \in Client, VerifyOwner(c) PROVE ApprovedIsReviewed'
  BY <1>4 DEF VerifyOwner
<1>5. ASSUME NEW c \in Client, SimulateSettlement(c) PROVE ApprovedIsReviewed'
  BY <1>5 DEF SimulateSettlement, NoRequest
<1>6. ASSUME NEW c \in Client, MarkSimulationFailed(c) PROVE ApprovedIsReviewed'
  BY <1>6 DEF MarkSimulationFailed, Fault, NoRequest
<1>7. CASE Tick
  BY <1>7 DEF Tick, PendingSimulations
<1>8. ASSUME NEW entry \in todo, Process(entry) PROVE ApprovedIsReviewed'
  BY <1>8 DEF Process, At
<1>9. CASE IncrSimulationRetry
  BY <1>9 DEF IncrSimulationRetry, Fault, Goto, Finish, At, Idle
<1>10. CASE DiscoverTickets
  <2>1. /\ \A i \in Inspection : owner'[i] # owner[i] =>
             owner[i] = None /\ owner'[i] = job.s
        /\ UNCHANGED <<status, reviewed>>
    BY <1>10 DEF DiscoverTickets, UpsertAMLTickets
  <2>2. ASSUME NEW s \in Sim, status[s] = "AML_APPROVED"
        PROVE  \A i \in Inspection : owner'[i] = s <=> owner[i] = s
    BY <2>1, <2>2, NoneAssumption
  <2>. QED BY <2>1, <2>2
<1>11. CASE ListAMLTickets
  BY <1>11 DEF ListAMLTickets, Fault, Finish, At, Idle, Tickets
<1>12. CASE SetPending
  BY <1>12 DEF SetPending, Fault, Goto
<1>13. CASE VisitTicket
  BY <1>13 DEF VisitTicket, Fault, Goto, At
<1>14. CASE SetAMLTicketUUID
  BY <1>14 DEF SetAMLTicketUUID, Fault, Goto, NextTicket, At
<1>15. CASE SubmitAMLReview
  BY <1>15 DEF SubmitAMLReview, Fault, Goto, NextTicket, At
<1>16. CASE MarkAMLTicketApproved
  BY <1>16 DEF MarkAMLTicketApproved, Fault, NextTicket, At
<1>17. CASE CheckApproved
  BY <1>17 DEF CheckApproved, Fault, Goto, Finish, At, Idle, AllApproved
<1>18. CASE SetApproved
  BY <1>18 DEF SetApproved, Fault, Finish, At, Idle
<1>19. CASE Crash
  BY <1>19 DEF Crash, Fault, At, Idle, NoRequest
<1>20. CASE UNCHANGED vars
  BY <1>20 DEF vars
<1>. QED BY <1>1, <1>2, <1>3, <1>4, <1>5, <1>6, <1>7, <1>8, <1>9, <1>10, <1>11,
            <1>12, <1>13, <1>14, <1>15, <1>16, <1>17, <1>18, <1>19, <1>20
     DEF Next, Poll

\* The invariant holds at the start.
LEMMA InitIInv == Init => IInv
BY NoneAssumption, BoundAssumption
   DEF Init, IInv, TypeOK, Queued, Working, Requesting, Reviewed, Done,
     ApprovedIsReviewed,
       Status, Open, JobLabel, Idle, At, NoRequest

\* And every step keeps it.
LEMMA IInvStep == IInv /\ [Next]_vars => IInv'
BY TypeStep, QueuedStep, WorkingStep, RequestingStep, ReviewedStep, DoneStep,
  ApprovedStep
   DEF IInv
-------------------------------------------------------------------------------
(* Theorems                                                                *)

\* IInv holds throughout.
THEOREM Invariance == Spec => []IInv
BY InitIInv, IInvStep, PTL DEF Spec

\* Every variable keeps its type; in particular no simulation is ever given more
\* turns than max_retries (IncrSimulationRetry has no guard of its own).
THEOREM TypeCorrect == Spec => []TypeOK
BY Invariance, PTL DEF IInv

\* AML_APPROVED is only shown for a simulation with tickets, all of which UPay
\* has approved (AllAMLTicketsApproved, AMLPoller.process).
THEOREM ApprovedWasReviewed == Spec => []ApprovedIsReviewed
BY Invariance, PTL DEF IInv

\* Once nobody is at work on a settled or spent simulation, no tick takes it up
\* again and nothing is written to it or approved for it any more
\* (ListPendingSimulations holds back IncrSimulationRetry, SetSimulationStatus,
\* UpsertAMLTicket and the reviews).
THEOREM RestStays == Spec => RestIsFinal
<1>. DEFINE Stays(s) ==
       AtRest(s) =>
         /\ AtRest(s)'
         /\ status'[s] = status[s]
         /\ Tickets(s)' = Tickets(s)
         /\ Tickets(s) \intersect approved' = Tickets(s) \intersect approved
<1>1. ASSUME IInv, [Next]_vars, NEW s \in Sim PROVE Stays(s)
  <2>. USE <1>1, NoneAssumption, BoundAssumption
       DEF IInv, TypeOK, Working, AtRest, Held, Open, Tickets,
           simVars, ticketVars, upayVars, jobVars
  <2>1. ASSUME NEW i \in Inspection, DepositArrives(i) PROVE Stays(s)
    BY <2>1 DEF DepositArrives
  <2>2. ASSUME NEW i \in Inspection, TicketAppears(i) PROVE Stays(s)
    BY <2>2 DEF TicketAppears
  <2>3. ASSUME NEW c \in Client, InsertSimulation(c) PROVE Stays(s)
    BY <2>3 DEF InsertSimulation, CreateRow
  <2>4. ASSUME NEW c \in Client, VerifyOwner(c) PROVE Stays(s)
    BY <2>4 DEF VerifyOwner
  <2>5. ASSUME NEW c \in Client, SimulateSettlement(c) PROVE Stays(s)
    BY <2>5 DEF SimulateSettlement, NoRequest
  <2>6. ASSUME NEW c \in Client, MarkSimulationFailed(c) PROVE Stays(s)
    BY <2>6 DEF MarkSimulationFailed, NoRequest
  <2>7. CASE Tick
    BY <2>7 DEF Tick, PendingSimulations
  <2>8. ASSUME NEW entry \in todo, Process(entry) PROVE Stays(s)
    BY <2>8 DEF Process, At
  <2>9. CASE IncrSimulationRetry
    BY <2>9 DEF IncrSimulationRetry, Goto, Finish, At, Idle
  <2>10. CASE DiscoverTickets
    BY <2>10 DEF DiscoverTickets, UpsertAMLTickets, Goto, Finish, At, Idle
  <2>11. CASE ListAMLTickets
    BY <2>11 DEF ListAMLTickets, Finish, At, Idle
  <2>12. CASE SetPending
    BY <2>12 DEF SetPending, Goto
  <2>13. CASE VisitTicket
    BY <2>13 DEF VisitTicket, Goto, At
  <2>14. CASE SetAMLTicketUUID
    BY <2>14 DEF SetAMLTicketUUID, Goto, NextTicket, At
  <2>15. CASE SubmitAMLReview
    BY <2>15 DEF SubmitAMLReview, Goto, NextTicket, At
  <2>16. CASE MarkAMLTicketApproved
    BY <2>16 DEF MarkAMLTicketApproved, NextTicket, At
  <2>17. CASE CheckApproved
    BY <2>17 DEF CheckApproved, Goto, Finish, At, Idle
  <2>18. CASE SetApproved
    BY <2>18 DEF SetApproved, Finish, At, Idle
  <2>19. CASE Crash
    BY <2>19 DEF Crash, At, Idle, NoRequest
  <2>20. CASE UNCHANGED vars
    BY <2>20 DEF vars
  <2>. QED BY <2>1, <2>2, <2>3, <2>4, <2>5, <2>6, <2>7, <2>8, <2>9, <2>10, <2>11,
              <2>12, <2>13, <2>14, <2>15, <2>16, <2>17, <2>18, <2>19, <2>20
       DEF Next, Poll
<1>2. IInv /\ [Next]_vars => [\A s \in Sim : Stays(s)]_vars
  BY <1>1
<1>. QED BY <1>2, Invariance, PTL DEF Spec, RestIsFinal
===============================================================================
