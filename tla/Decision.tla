------------------------------ MODULE Decision ------------------------------
(***************************************************************************)
(* distribution.py: how the load balancer picks a server, one of its SDRs  *)
(* and a profile of the SDR for a browser that selected a frequency range. *)
(*                                                                         *)
(* The state of the servers is a function db from server ids to records    *)
(*   [responding, priority, cpu, sdrs], cpu in percent, sdrs a function    *)
(* from SDR ids to                                                         *)
(*   [failed, disabled, priority, has_users, cur_profile_id, profiles],    *)
(* profiles a function from profile ids to [center_freq, sample_rate].     *)
(***************************************************************************)
EXTENDS Integers

\* Mutant: only the start of the range is looked at.
StartMatches(checked, selected) ==
  /\ 2 * checked.center_freq - checked.sample_rate <= 2 * selected.start_freq
  /\ 2 * checked.center_freq + checked.sample_rate >= 2 * selected.start_freq

\* The profile of an SDR covers the range a browser selected. (The source
\* halves the sample rate; both sides are doubled here.)
check_profiles_match(checked, selected) ==
  /\ 2 * checked.center_freq - checked.sample_rate <= 2 * selected.start_freq
  /\ 2 * checked.center_freq + checked.sample_rate >= 2 * selected.end_freq

\* Mutant: the load that costs points turns away.
ServerIdle(server) ==
  server.responding /\ server.priority > 0 /\ server.cpu <= 50

ServerAvailable(server) ==
  server.responding /\ server.priority > 0 /\ server.cpu <= 80

ServerScore(server) ==
  server.priority - IF server.cpu > 50 THEN 20 ELSE 0

SdrAvailable(sdrid, sdr, failed_sdrs) ==
  ~sdr.failed /\ ~sdr.disabled /\ sdrid \notin failed_sdrs

\* Mutant: whoever listens is not asked.
AnyProfile(sdr) == DOMAIN sdr.profiles

\* An SDR somebody listens to offers the profile it is tuned to and no other.
ProfilesOffered(sdr) ==
  IF sdr.has_users THEN {sdr.cur_profile_id} ELSE DOMAIN sdr.profiles

SdrScore(sdr) == sdr.priority + IF sdr.has_users THEN 10 ELSE 0

\* The tuples of match_list.
MatchList(db, selected, failed_sdrs) ==
  UNION {UNION {
    LET server == db[s]
        sdr    == db[s].sdrs[d]
    IN  {[server |-> s, sdr |-> d, profile |-> p,
          score |-> ServerScore(server) + SdrScore(sdr),
          sample_rate |-> sdr.profiles[p].sample_rate] :
            p \in {q \in ProfilesOffered(sdr) :
                     /\ ServerAvailable(server)
                     /\ SdrAvailable(d, sdr, failed_sdrs)
                     /\ check_profiles_match(sdr.profiles[q], selected)}} :
    d \in DOMAIN db[s].sdrs} : s \in DOMAIN db}

\* score_sort: the higher score, then the narrower profile.
Better(m, n) ==
  \/ m.score > n.score
  \/ m.score = n.score /\ m.sample_rate < n.sample_rate

\* max(match_list, key = score_sort). Which of several equally good ones it
\* is depends on the order of the dicts, which nothing fixes.
BestMatches(db, selected, failed_sdrs) ==
  LET match_list == MatchList(db, selected, failed_sdrs)
  IN  {m \in match_list : \A n \in match_list : ~Better(n, m)}

NoDecision == [decision |-> "false"]

\* The answers decision_algorithm may give.
Decisions(db, selected, failed_sdrs) ==
  LET best == BestMatches(db, selected, failed_sdrs)
  IN  IF best = {} THEN {NoDecision}
      ELSE {[decision |-> "true", server |-> m.server, sdr |-> m.sdr,
             profile |-> m.profile] : m \in best}
=============================================================================
