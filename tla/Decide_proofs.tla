---------------------------- MODULE Decide_proofs ----------------------------
(***************************************************************************)
(* What an answer of decision_algorithm is worth, for every state of the   *)
(* servers, every selected range and every cookie.                         *)
(***************************************************************************)
EXTENDS Decide, FiniteSetTheorems, WellFoundedInduction, TLAPS

\* The answer is one the algorithm may give to its inputs.
Answered ==
  /\ db \in Db /\ selected \in Selected
  /\ answer = Unanswered \/ answer \in Decisions(db, selected, failed_sdrs)

LEMMA AnsweredAlways == Spec => []Answered
<1>1. Init => Answered
  BY DEF Init, Answered
<1>2. ASSUME Answered, [Next]_vars
      PROVE  Answered'
  BY <1>2 DEF Answered, Next, decision_algorithm, vars
<1> QED BY <1>1, <1>2, PTL DEF Spec

\* What is in the list of matches.
LEMMA MatchListMembers ==
  ASSUME NEW base, NEW sel, NEW fs, NEW m \in MatchList(base, sel, fs)
  PROVE  \E s \in DOMAIN base : \E d \in DOMAIN base[s].sdrs :
           \E p \in ProfilesOffered(base[s].sdrs[d]) :
             /\ ServerAvailable(base[s]) /\ SdrAvailable(d, base[s].sdrs[d], fs)
             /\ check_profiles_match(base[s].sdrs[d].profiles[p], sel)
             /\ m.server = s /\ m.sdr = d /\ m.profile = p
BY DEF MatchList

\* A positive answer names an entry of the list of matches.
LEMMA DecidedMatches ==
  ASSUME NEW base, NEW sel, NEW fs, NEW a \in Decisions(base, sel, fs), a.decision = "true"
  PROVE  \E m \in MatchList(base, sel, fs) :
           a.server = m.server /\ a.sdr = m.sdr /\ a.profile = m.profile
<1>1. a # NoDecision
  BY DEF NoDecision
<1>2. \E m \in BestMatches(base, sel, fs) :
        a = [decision |-> "true", server |-> m.server, sdr |-> m.sdr, profile |-> m.profile]
  BY <1>1 DEF Decisions
<1> QED BY <1>2 DEF BestMatches

\* The two together, about the answer of a state.
LEMMA DecidedAvailable ==
  ASSUME Answered, Decided
  PROVE  /\ answer.server \in DOMAIN db /\ answer.sdr \in DOMAIN db[answer.server].sdrs
         /\ answer.profile \in ProfilesOffered(Sdr)
         /\ ServerAvailable(db[answer.server]) /\ SdrAvailable(answer.sdr, Sdr, failed_sdrs)
         /\ check_profiles_match(Sdr.profiles[answer.profile], selected)
<1>1. answer \in Decisions(db, selected, failed_sdrs) /\ answer.decision = "true"
  BY DEF Answered, Decided, Unanswered
<1>2. PICK m \in MatchList(db, selected, failed_sdrs) :
        answer.server = m.server /\ answer.sdr = m.sdr /\ answer.profile = m.profile
  BY <1>1, DecidedMatches
<1> QED BY <1>2, MatchListMembers DEF Sdr

\* Whoever is sent somewhere can be served there: a server that responds and
\* is not overloaded, an SDR not known to have failed, a profile that spans
\* the selected range (distribution.py, decision_algorithm).
THEOREM ServableAlways == Spec => []Servable
<1>1. ASSUME Answered
      PROVE  Servable
  <2> SUFFICES ASSUME Decided PROVE Servable
    BY DEF Servable
  <2>1. /\ db[answer.server].responding /\ db[answer.server].cpu <= 80
        /\ ~Sdr.failed /\ ~Sdr.disabled /\ answer.sdr \notin failed_sdrs
    BY <1>1, DecidedAvailable DEF ServerAvailable, SdrAvailable
  <2>2. answer.server \in DOMAIN db /\ IsSdr(Sdr)
    BY <1>1, DecidedAvailable, DbAssumption DEF Answered, IsServer, Sdr
  <2>3. answer.profile \in DOMAIN Sdr.profiles
    BY <1>1, <2>2, DecidedAvailable DEF ProfilesOffered, IsSdr
  <2>4. /\ Sdr.profiles[answer.profile].center_freq \in Int
        /\ Sdr.profiles[answer.profile].sample_rate \in Int
        /\ selected.start_freq \in Int /\ selected.end_freq \in Int
    BY <1>1, <2>2, <2>3, SelectedAssumption DEF Answered, IsSdr
  <2>5. check_profiles_match(Sdr.profiles[answer.profile], selected)
    BY <1>1, DecidedAvailable
  <2>6. ASSUME NEW c \in Int, NEW w \in Int, NEW lo \in Int, NEW hi \in Int,
               2 * c - w <= 2 * lo, 2 * c + w >= 2 * hi, lo <= hi
        PROVE  \A f \in {2 * lo, 2 * hi} : 2 * c - w <= f /\ f <= 2 * c + w
    BY <2>6
  <2> QED BY <1>1, <2>1, <2>3, <2>4, <2>5, <2>6, DecidedAvailable
          DEF Servable, check_profiles_match
<1> QED BY <1>1, AnsweredAlways, PTL

\* Nobody is sent to retune an SDR that others listen to.
THEOREM UsersKeptAlways == Spec => []UsersKept
<1>1. Answered => UsersKept
  BY DecidedAvailable DEF UsersKept, ProfilesOffered
<1> QED BY <1>1, AnsweredAlways, PTL

----------------------------------------------------------------------------
(* Somebody is only turned away when nothing would do, since a list of     *)
(* matches that has an entry has a best one.                               *)

\* The image of a finite set is finite, for a function instead of an operator.
LEMMA ImageFinite ==
  ASSUME NEW S, IsFiniteSet(S), NEW f, DOMAIN f = S
  PROVE  IsFiniteSet({f[x] : x \in S})
<1> DEFINE T == {f[x] : x \in S}
<1>1. [x \in S |-> f[x]] \in Surjection(S, T)
  BY DEF Surjection
<1> QED BY <1>1, FS_Surjection

\* The union over the keys of a dict.
LEMMA UnionFinite ==
  ASSUME NEW S, IsFiniteSet(S), NEW f, DOMAIN f = S, \A x \in S : IsFiniteSet(f[x])
  PROVE  IsFiniteSet(UNION {f[x] : x \in S})
<1>1. IsFiniteSet({f[x] : x \in S})
  BY ImageFinite
<1> QED BY <1>1, FS_UNION

\* A finite set of matches has one that no other one beats: the set of those
\* that beat it is minimal, since Better is a strict order.
LEMMA BestExists ==
  ASSUME NEW T, IsFiniteSet(T), T # {},
         \A m \in T : m.score \in Int /\ m.sample_rate \in Int
  PROVE  \E m \in T : \A n \in T : ~Better(n, m)
<1> DEFINE Above(m) == {n \in T : Better(n, m)}
           Aboves   == {Above(m) : m \in T}
<1>1. IsWellFoundedOn(StrictSubsetOrdering(T), FiniteSubsetsOf(T))
  BY FS_StrictSubsetOrderingWellFounded
<1>2. Aboves \subseteq FiniteSubsetsOf(T) /\ Aboves # {}
  <2>1. ASSUME NEW m \in T PROVE Above(m) \in FiniteSubsetsOf(T)
    BY FS_Subset DEF FiniteSubsetsOf
  <2> QED BY <2>1
<1>3. PICK A \in Aboves : \A B \in Aboves : <<B, A>> \notin StrictSubsetOrdering(T)
  <2> HIDE DEF Aboves
  <2> QED BY <1>1, <1>2, WFMin
<1>4. PICK m \in T : A = Above(m)
  BY <1>3
<1>5. ASSUME NEW n \in T, Better(n, m)
      PROVE  FALSE
  <2>1. Above(n) \subseteq Above(m)
    BY <1>5 DEF Better
  <2>2. n \in Above(m) /\ n \notin Above(n)
    BY <1>5 DEF Better
  <2>3. <<Above(n), A>> \in StrictSubsetOrdering(T)
    BY <1>4, <2>1, <2>2 DEF StrictSubsetOrdering
  <2> QED BY <1>3, <2>3
<1> QED BY <1>5

\* The list of matches is finite and its entries can be compared.
LEMMA MatchListComparable ==
  ASSUME NEW base \in Db, NEW sel, NEW fs
  PROVE  /\ IsFiniteSet(MatchList(base, sel, fs))
         /\ \A m \in MatchList(base, sel, fs) : m.score \in Int /\ m.sample_rate \in Int
<1> DEFINE Match(s, d, p) ==
             [server |-> s, sdr |-> d, profile |-> p,
              score |-> ServerScore(base[s]) + SdrScore(base[s].sdrs[d]),
              sample_rate |-> base[s].sdrs[d].profiles[p].sample_rate]
           Profiles(s, d) ==
             {q \in ProfilesOffered(base[s].sdrs[d]) :
                /\ ServerAvailable(base[s])
                /\ SdrAvailable(d, base[s].sdrs[d], fs)
                /\ check_profiles_match(base[s].sdrs[d].profiles[q], sel)}
           OfSdr(s, d) == {Match(s, d, p) : p \in Profiles(s, d)}
           OfServer(s) == UNION {OfSdr(s, d) : d \in DOMAIN base[s].sdrs}
<1>1. MatchList(base, sel, fs) = UNION {OfServer(s) : s \in DOMAIN base}
  BY DEF MatchList
<1>2. /\ IsFiniteSet(DOMAIN base)
      /\ \A s \in DOMAIN base :
           /\ base[s].priority \in Nat /\ base[s].cpu \in Nat
           /\ IsFiniteSet(DOMAIN base[s].sdrs)
           /\ \A d \in DOMAIN base[s].sdrs : IsSdr(base[s].sdrs[d])
  BY DbAssumption DEF IsServer
<1>3. ASSUME NEW s \in DOMAIN base, NEW d \in DOMAIN base[s].sdrs
      PROVE  /\ Profiles(s, d) \subseteq DOMAIN base[s].sdrs[d].profiles
             /\ IsFiniteSet(Profiles(s, d))
  <2>1. Profiles(s, d) \subseteq DOMAIN base[s].sdrs[d].profiles
    BY <1>2 DEF ProfilesOffered, IsSdr
  <2> QED BY <1>2, <2>1, FS_Subset DEF IsSdr
<1>4. ASSUME NEW s \in DOMAIN base
      PROVE  IsFiniteSet(OfServer(s))
  <2>1. ASSUME NEW d \in DOMAIN base[s].sdrs
        PROVE  IsFiniteSet(OfSdr(s, d))
    <3> DEFINE f == [p \in Profiles(s, d) |-> Match(s, d, p)]
    <3>1. IsFiniteSet({f[p] : p \in Profiles(s, d)})
      <4> HIDE DEF Profiles
      <4>1. DOMAIN f = Profiles(s, d)
        OBVIOUS
      <4> HIDE DEF f
      <4> QED BY <1>3, <4>1, ImageFinite
    <3>2. {f[p] : p \in Profiles(s, d)} = OfSdr(s, d)
      <4> HIDE DEF Profiles, Match
      <4> QED OBVIOUS
    <3> QED BY <3>1, <3>2
  <2> DEFINE g == [d \in DOMAIN base[s].sdrs |-> OfSdr(s, d)]
  <2>2. UNION {g[d] : d \in DOMAIN base[s].sdrs} = OfServer(s)
    <3> HIDE DEF OfSdr
    <3> QED OBVIOUS
  <2>3. DOMAIN g = DOMAIN base[s].sdrs /\ \A d \in DOMAIN base[s].sdrs : IsFiniteSet(g[d])
    <3> HIDE DEF OfSdr
    <3> QED BY <2>1
  <2> HIDE DEF g
  <2> QED BY <1>2, <2>2, <2>3, UnionFinite
<1>5. IsFiniteSet(MatchList(base, sel, fs))
  <2> DEFINE h == [s \in DOMAIN base |-> OfServer(s)]
  <2> HIDE DEF OfServer
  <2>1. DOMAIN h = DOMAIN base /\ \A s \in DOMAIN base : IsFiniteSet(h[s])
    BY <1>4
  <2>2. UNION {h[s] : s \in DOMAIN base} = MatchList(base, sel, fs)
    BY <1>1
  <2> HIDE DEF h
  <2> QED BY <1>2, <2>1, <2>2, UnionFinite
<1>6. ASSUME NEW m \in MatchList(base, sel, fs)
      PROVE  m.score \in Int /\ m.sample_rate \in Int
  <2>1. PICK s \in DOMAIN base : m \in OfServer(s)
    <3> HIDE DEF OfServer
    <3> QED BY <1>1
  <2>2. PICK d \in DOMAIN base[s].sdrs : m \in OfSdr(s, d)
    <3> HIDE DEF OfSdr
    <3> QED BY <2>1
  <2>3. PICK p \in Profiles(s, d) : m = Match(s, d, p)
    <3> HIDE DEF Profiles, Match
    <3> QED BY <2>2
  <2>4. p \in DOMAIN base[s].sdrs[d].profiles
    BY <1>3, <2>3
  <2>5. /\ m.score = ServerScore(base[s]) + SdrScore(base[s].sdrs[d])
        /\ m.sample_rate = base[s].sdrs[d].profiles[p].sample_rate
    BY <2>3
  <2>6. ServerScore(base[s]) \in Int /\ SdrScore(base[s].sdrs[d]) \in Int
    BY <1>2 DEF ServerScore, SdrScore, IsSdr
  <2> QED BY <1>2, <2>4, <2>5, <2>6 DEF IsSdr
<1> QED BY <1>5, <1>6

\* What would do has an entry in the list.
LEMMA MatchListEntry ==
  ASSUME NEW base, NEW sel, NEW fs,
         NEW s \in DOMAIN base, NEW d \in DOMAIN base[s].sdrs,
         NEW p \in ProfilesOffered(base[s].sdrs[d]),
         ServerAvailable(base[s]), SdrAvailable(d, base[s].sdrs[d], fs),
         check_profiles_match(base[s].sdrs[d].profiles[p], sel)
  PROVE  MatchList(base, sel, fs) # {}
<1> DEFINE m == [server |-> s, sdr |-> d, profile |-> p,
                 score |-> ServerScore(base[s]) + SdrScore(base[s].sdrs[d]),
                 sample_rate |-> base[s].sdrs[d].profiles[p].sample_rate]
           OfSdr(t, e) ==
             LET server == base[t]
                 sdr    == base[t].sdrs[e]
             IN  {[server |-> t, sdr |-> e, profile |-> q,
                   score |-> ServerScore(server) + SdrScore(sdr),
                   sample_rate |-> sdr.profiles[q].sample_rate] :
                     q \in {r \in ProfilesOffered(sdr) :
                              /\ ServerAvailable(server)
                              /\ SdrAvailable(e, sdr, fs)
                              /\ check_profiles_match(sdr.profiles[r], sel)}}
<1>1. m \in OfSdr(s, d)
  OBVIOUS
<1>2. MatchList(base, sel, fs)
        = UNION {UNION {OfSdr(t, e) : e \in DOMAIN base[t].sdrs} : t \in DOMAIN base}
  BY DEF MatchList
<1> HIDE DEF m, OfSdr
<1>3. m \in UNION {OfSdr(s, e) : e \in DOMAIN base[s].sdrs}
  BY <1>1
<1> QED BY <1>2, <1>3

\* Nobody is turned away who could be served (distribution.py,
\* decision_algorithm).
THEOREM NoneOnlyIfNoneAlways == Spec => []NoneOnlyIfNone
<1>1. ASSUME Answered
      PROVE  NoneOnlyIfNone
  <2> SUFFICES ASSUME answer = NoDecision,
                      NEW s \in DOMAIN db,
                      db[s].responding, db[s].priority > 0, db[s].cpu <= 80,
                      NEW d \in DOMAIN db[s].sdrs \ failed_sdrs,
                      ~db[s].sdrs[d].failed, ~db[s].sdrs[d].disabled,
                      NEW p \in DOMAIN db[s].sdrs[d].profiles,
                      check_profiles_match(db[s].sdrs[d].profiles[p], selected)
               PROVE  db[s].sdrs[d].has_users /\ db[s].sdrs[d].cur_profile_id # p
    BY DEF NoneOnlyIfNone
  <2>1. NoDecision \in Decisions(db, selected, failed_sdrs)
    BY <1>1 DEF Answered, Unanswered, NoDecision
  <2>2. BestMatches(db, selected, failed_sdrs) = {}
    BY <2>1 DEF Decisions, NoDecision
  <2>3. MatchList(db, selected, failed_sdrs) = {}
    <3>1. db \in Db
      BY <1>1 DEF Answered
    <3> QED BY <2>2, <3>1, MatchListComparable, BestExists DEF BestMatches
  <2>4. p \notin ProfilesOffered(db[s].sdrs[d])
    <3> SUFFICES ASSUME p \in ProfilesOffered(db[s].sdrs[d]) PROVE FALSE
      OBVIOUS
    <3>1. ServerAvailable(db[s]) /\ SdrAvailable(d, db[s].sdrs[d], failed_sdrs)
      BY DEF ServerAvailable, SdrAvailable
    <3> QED BY <2>3, <3>1, MatchListEntry
  <2>5. db[s].sdrs[d].has_users \in BOOLEAN
    BY <1>1, DbAssumption DEF Answered, IsServer, IsSdr
  <2> QED BY <2>4, <2>5 DEF ProfilesOffered
<1> QED BY <1>1, AnsweredAlways, PTL
=============================================================================
