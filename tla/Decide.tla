------------------------------- MODULE Decide -------------------------------
(***************************************************************************)
(* One call of Distribution.decision_algorithm, from what it is called     *)
(* with and the state of the servers it finds, to its answer; and what the *)
(* answer is worth, said without the algorithm's own definitions.          *)
(***************************************************************************)
EXTENDS Decision, FiniteSets

CONSTANTS
  Db,            \* states of the servers
  Selected,      \* ranges a browser selects: [start_freq, end_freq]
  Failed         \* sets of SDR ids the browser's cookie calls failed

\* What the initial and the current state that the servers send guarantee of
\* their entries.
IsSdr(sdr) ==
  /\ sdr.failed \in BOOLEAN /\ sdr.disabled \in BOOLEAN /\ sdr.has_users \in BOOLEAN
  /\ sdr.priority \in Nat
  /\ IsFiniteSet(DOMAIN sdr.profiles)
  /\ \A p \in DOMAIN sdr.profiles :
       sdr.profiles[p].center_freq \in Int /\ sdr.profiles[p].sample_rate \in Int
  /\ sdr.has_users => sdr.cur_profile_id \in DOMAIN sdr.profiles
IsServer(server) ==
  /\ server.responding \in BOOLEAN
  /\ server.priority \in Nat /\ server.cpu \in Nat
  /\ IsFiniteSet(DOMAIN server.sdrs)
  /\ \A d \in DOMAIN server.sdrs : IsSdr(server.sdrs[d])

ASSUME DbAssumption == 
  \A db \in Db : IsFiniteSet(DOMAIN db) /\ \A s \in DOMAIN db : IsServer(db[s])
ASSUME SelectedAssumption ==
  \A sel \in Selected : sel.start_freq \in Int /\ sel.end_freq \in Int

VARIABLES db, selected, failed_sdrs, answer
vars == <<db, selected, failed_sdrs, answer>>

Unanswered == [decision |-> "pending"]

Init ==
  /\ db \in Db /\ selected \in Selected /\ failed_sdrs \in Failed
  /\ answer = Unanswered

decision_algorithm ==
  /\ answer = Unanswered
  /\ answer' \in Decisions(db, selected, failed_sdrs)
  /\ UNCHANGED <<db, selected, failed_sdrs>>

Next == decision_algorithm
Spec == Init /\ [][Next]_vars

----------------------------------------------------------------------------
(* Properties.                                                             *)

Decided == answer.decision = "true"
Sdr     == db[answer.server].sdrs[answer.sdr]

\* A browser is sent to a server that answers and is not overloaded, to an
\* SDR that neither the server nor the browser knows to have failed, and to a
\* profile that spans the whole range it selected.
Servable ==
  Decided =>
    /\ answer.server \in DOMAIN db /\ answer.sdr \in DOMAIN db[answer.server].sdrs
    /\ db[answer.server].responding /\ db[answer.server].cpu <= 80
    /\ ~Sdr.failed /\ ~Sdr.disabled /\ answer.sdr \notin failed_sdrs
    /\ answer.profile \in DOMAIN Sdr.profiles
    /\ LET p == Sdr.profiles[answer.profile] IN
         \A f \in {2 * selected.start_freq, 2 * selected.end_freq} :
           selected.start_freq <= selected.end_freq =>
             /\ 2 * p.center_freq - p.sample_rate <= f
             /\ f <= 2 * p.center_freq + p.sample_rate

\* A newcomer joins the listeners of an SDR where they are: it is never sent
\* there for another profile than the one they listen to.
UsersKept == Decided /\ Sdr.has_users => answer.profile = Sdr.cur_profile_id

\* A browser is turned away only if no profile would have done: every usable
\* SDR of every usable server is tuned away from the range by its listeners,
\* or has no profile that spans it.
NoneOnlyIfNone ==
  answer = NoDecision =>
    \A s \in DOMAIN db :
      db[s].responding /\ db[s].priority > 0 /\ db[s].cpu <= 80 =>
        \A d \in DOMAIN db[s].sdrs \ failed_sdrs :
          LET sdr == db[s].sdrs[d] IN
            ~sdr.failed /\ ~sdr.disabled =>
              \A p \in DOMAIN sdr.profiles :
                check_profiles_match(sdr.profiles[p], selected) =>
                  sdr.has_users /\ sdr.cur_profile_id # p

\* "Note: default is 100, range: 0-1000, 0 means disabled." (the infotext of
\* an SDR's priority, owrx/source/__init__.py:532): no browser is sent to an
\* SDR of priority 0. The algorithm leaves out servers of priority 0 only.
ZeroMeansDisabled == Decided => Sdr.priority > 0
=============================================================================
