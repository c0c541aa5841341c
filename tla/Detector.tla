------------------------------ MODULE Detector ------------------------------
(***************************************************************************)
(* Detection in one text with either engine: the text is cut (Units), the  *)
(* span model is asked about the pieces in batches, their answers are      *)
(* merged, deny-listed terms are matched, Presidio is asked for the other  *)
(* types, and the handler's filters apply (Detect, Pseudonymize).  What    *)
(* the services are asked follows from the configuration (run).  They are  *)
(* external: of each place they may have any opinion.  The cache between   *)
(* them is NERCache's subject.                                             *)
(***************************************************************************)
EXTENDS Units, FiniteSets

CONSTANTS
  Config,       \* the configurations
  Plain,        \* the one for texts in which nothing is found
  Telling,      \* the texts in which something may be found; none is blank
  Type, Label,  \* entity types, and labels of the span model
  Score,        \* the scores; the highest is certain
  Place,        \* the places [from, to) the services may have an opinion of
  Term,         \* the deny-listed terms, as they are listed
  TermType,     \* the type each is listed under
  Matches,      \* the places where a term stands in a telling text, in any case
  Exempt,       \* the places whose text is on the allow-list
  Implausible,  \* the places whose text is no person's name
  Person,       \* the PERSON type
  BatchSize,    \* NER_BATCH_SIZE
  Faults        \* the faults that may happen

ASSUME ConfigAssumption ==
  /\ Plain \in Config
  /\ \A c \in Config :
       /\ c.engine \in {"ner", "presidio"}
       /\ c.entities \subseteq Type /\ c.entities # {}
       /\ c.labels \in [DOMAIN c.labels -> Type] /\ DOMAIN c.labels \subseteq Label
       /\ c.own \in [DOMAIN c.own -> Score] /\ DOMAIN c.own \subseteq Type
       /\ {c.score, c.nerScore} \subseteq Score
ASSUME PlaceAssumption ==
  /\ Telling \subseteq Input
  /\ \A t \in Telling : \E i \in DOMAIN t : t[i] \notin {"space", "newline"}
  /\ Score \subseteq Nat /\ \E top \in Score : \A s \in Score : s <= top
  /\ Place \subseteq Interval /\ Exempt \subseteq Interval /\ Implausible \subseteq Interval
  /\ Term \in Seq(DOMAIN TermType) /\ TermType \in [DOMAIN TermType -> Type]
  /\ Matches \in [DOMAIN TermType -> SUBSET Interval]
  /\ \A term \in DOMAIN TermType : IsFiniteSet(Matches[term])
  /\ \A p \in Place : p.from < p.to  \* an empty span is dropped
  /\ BatchSize \in Nat \ {0}
  /\ Faults \subseteq {"ner", "presidio", "empty body"}

VARIABLES
  config,
  stage,     \* "names", "deny", "patterns", "filter", "done" or "failed"
  answered,  \* the units the span model has answered
  heard,     \* its spans: unit, label, score and offsets in the unit
  found,     \* the detections so far
  spotted,   \* what the span model sees, asked for or not (history)
  sighted,   \* what Presidio sees, asked for or not (history)
  emptied    \* whether Presidio's body was empty (history)

history == <<spotted, sighted, emptied>>
detectVars == <<config, stage, answered, heard, found, history>>
allVars == <<vars, detectVars>>

MatchPlaces == UNION {Matches[Term[i]] : i \in DOMAIN Term}

\* Type invariant of Detect: detections lie where something stands that may
\* be found, and what is heard lies in the unit it was heard of.
DetectTypeOK ==
  /\ TypeOK
  /\ config \in Config
  /\ stage \in {"names", "deny", "patterns", "filter", "done", "failed"}
  /\ answered \subseteq units
  /\ \A h \in heard : /\ h.unit \in answered /\ h.label \in Label /\ h.score \in Score
                      /\ 0 <= h.from /\ h.from < h.to /\ h.to <= h.unit.to - h.unit.from
  /\ \A d \in found : /\ d.type \in Type /\ d.score \in Score
                      /\ [from |-> d.from, to |-> d.to] \in Place \cup MatchPlaces
  /\ emptied \in BOOLEAN

-----------------------------------------------------------------------------
(* The configuration and what it asks for. *)

Least(S) == CHOOSE s \in S : \A t \in S : s <= t
Most(S) == CHOOSE s \in S : \A t \in S : s >= t

\* NERLabelsFor: the labels of enabled types, the types they serve, the rest.
Asked == IF config.engine = "ner"
         THEN {l \in DOMAIN config.labels : config.labels[l] \in config.entities}
         ELSE {}
Served == {config.labels[l] : l \in Asked}
PatternEntities == config.entities \ Served

\* A type is judged by its own threshold, else by that of its engine.
Threshold(type) ==
  IF type \in DOMAIN config.own THEN config.own[type]
  ELSE IF type \in Served THEN config.nerScore ELSE config.score

\* Variant: the overrides of the served types are not asked for.
NERMinGlobal == config.nerScore

\* The lowest score the span model is asked for.
NERMin == Least({config.nerScore} \cup {Threshold(t) : t \in Served})

\* The lowest score Presidio is asked for.
MinScoreThreshold == Least({config.score} \cup {config.own[t] : t \in DOMAIN config.own})

-----------------------------------------------------------------------------
Empty == \A i \in 0..(Len(text) - 1) : IsSpace(i)

\* A text of white space only is not analyzed; without labels it is not cut.
DetectInit ==
  /\ Init
  /\ config \in IF text \in Telling THEN Config ELSE {Plain}
  /\ stage = IF Empty THEN "done" ELSE IF Asked = {} THEN "deny" ELSE "names"
  /\ answered = {}
  /\ heard = {}
  /\ found = {}
  /\ spotted = {}
  /\ sighted = {}
  /\ emptied = FALSE

Cut == stage = "names" /\ Next /\ UNCHANGED detectVars

Places == IF text \in Telling THEN {p \in Place : p.to <= Len(text)} ELSE {}

-----------------------------------------------------------------------------
(* The span model. *)

\* The next units to ask about.
Batch ==
  LET left == units \ answered
      before(u) == {v \in left : v.from < u.from}
  IN  {u \in left : Cardinality(before(u)) < BatchSize}

\* It may see each place inside a unit as any label, in each unit anew.
Glances(u) == {[unit |-> u, place |-> p, label |-> l] :
                 p \in {q \in Places : Inside(q.from, q.to, u)}, l \in DOMAIN config.labels}

\* It answers with what was asked for: the labels, from the threshold up.
\* Offsets count from the start of the unit.
AnswerBatch ==
  /\ stage = "names" /\ phase = "done" /\ Batch # {}
  /\ \E scores \in [UNION {Glances(u) : u \in Batch} -> Score] :
       /\ spotted' = spotted \cup {[glance |-> g, score |-> scores[g]] : g \in DOMAIN scores}
       /\ heard' = heard \cup
            {[unit |-> g.unit, label |-> g.label, score |-> scores[g],
              from |-> g.place.from - g.unit.from, to |-> g.place.to - g.unit.from] :
               g \in {h \in DOMAIN scores : h.label \in Asked /\ scores[h] >= NERMin}}
  /\ answered' = answered \cup Batch
  /\ UNCHANGED <<vars, config, stage, found, sighted, emptied>>

\* The service is away, or answers malformed or with another number of lists:
\* what other batches found is dropped.
BatchFails ==
  /\ "ner" \in Faults
  /\ stage = "names" /\ phase = "done" /\ Batch # {}
  /\ stage' = "failed"
  /\ UNCHANGED <<vars, config, answered, heard, found, history>>

\* Of the reports of a place the best is kept.
Best(reports) == {CHOOSE d \in reports : \A e \in reports : e.score <= d.score}

\* Variant: the offsets in a unit are taken for offsets in the text.
InTextUnshifted(h) ==
  [type |-> config.labels[h.label], from |-> h.from, to |-> h.to, score |-> h.score]

\* A span of a unit as a detection in the text.
InText(h) ==
  [type |-> config.labels[h.label], from |-> h.unit.from + h.from,
   to |-> h.unit.from + h.to, score |-> h.score]

\* detectNames: windows overlap, so a place is reported more than once.
MergeNames ==
  /\ stage = "names" /\ phase = "done" /\ Batch = {}
  /\ LET all == {InText(h) : h \in heard}
         same(d) == {e \in all : e.type = d.type /\ e.from = d.from /\ e.to = d.to}
     IN  found' = UNION {Best(same(d)) : d \in all}
  /\ stage' = "deny"
  /\ UNCHANGED <<vars, config, answered, heard, history>>

-----------------------------------------------------------------------------
(* The deny-list. *)

Overlaps(p, q) == p.from < q.to /\ q.from < p.to

\* The places that are left when those that are kept exclude others.
Kept(places, excludes) ==
  CHOOSE kept \in SUBSET places :
    \A p \in places : p \in kept <=> ~\E q \in kept : <<q, p>> \in excludes

\* A regular expression finds a term from left to right.
Occurrences(term) ==
  LET all == IF text \in Telling THEN Matches[term] ELSE {}
      left(pair) == Overlaps(pair[1], pair[2]) /\ pair[1].from < pair[2].from
  IN  Kept(all, {pair \in all \X all : left(pair)})

WholeWord(p) ==
  /\ p.from = 0 \/ At(p.from - 1) # "other"
  /\ p.to = Len(text) \/ At(p.to) # "other"

\* Find: whole words; of terms that overlap the longest, then the first listed.
Denied(type) ==
  LET hits == UNION {{[rank |-> i, from |-> p.from, to |-> p.to] :
                        p \in {o \in Occurrences(Term[i]) : WholeWord(o)}} :
                     i \in {k \in DOMAIN Term : TermType[Term[k]] = type}}
      before(q, p) == \/ q.to - q.from > p.to - p.from
                      \/ q.to - q.from = p.to - p.from /\ q.rank < p.rank
      kept == Kept(hits, {pair \in hits \X hits :
                            Overlaps(pair[1], pair[2]) /\ before(pair[1], pair[2])})
  IN  {[from |-> h.from, to |-> h.to] : h \in kept}

FindDenied ==
  /\ stage = "deny"
  /\ found' = found \cup UNION {{[type |-> t, from |-> p.from, to |-> p.to, score |-> Most(Score)] :
                                   p \in Denied(t)} : t \in Served}
  /\ stage' = IF PatternEntities = {} THEN "filter" ELSE "patterns"
  /\ UNCHANGED <<vars, config, answered, heard, history>>

-----------------------------------------------------------------------------
(* Presidio. *)

\* It may see each place as any enabled type, and answers with what was asked
\* for.
Analyze ==
  /\ stage = "patterns"
  /\ \E scores \in [Places \X config.entities -> Score] :
       LET seen == {[type |-> g[2], from |-> g[1].from, to |-> g[1].to, score |-> scores[g]] :
                      g \in DOMAIN scores}
       IN  /\ sighted' = seen
           /\ found' = found \cup {d \in seen : /\ d.type \in PatternEntities
                                                /\ d.score >= MinScoreThreshold}
  /\ stage' = "filter"
  /\ UNCHANGED <<vars, config, answered, heard, spotted, emptied>>

\* It is away, refuses the question, or its body is not a list.
AnalyzeFails ==
  /\ "presidio" \in Faults
  /\ stage = "patterns"
  /\ stage' = "failed"
  /\ UNCHANGED <<vars, config, answered, heard, found, history>>

\* An empty body reads as a list without detections.
AnalyzeEmpty ==
  /\ "empty body" \in Faults
  /\ stage = "patterns"
  /\ stage' = "filter"
  /\ emptied' = TRUE
  /\ UNCHANGED <<vars, config, answered, heard, found, spotted, sighted>>

-----------------------------------------------------------------------------
(* The handler. *)

\* filterByEntityType, filterScore, filterAllowList and filterImplausible.
Passes(d) ==
  /\ d.type \in config.entities
  /\ d.score >= Threshold(d.type)
  /\ [from |-> d.from, to |-> d.to] \notin Exempt
  /\ d.type = Person => [from |-> d.from, to |-> d.to] \notin Implausible

Filter ==
  /\ stage = "filter"
  /\ found' = {d \in found : Passes(d)}
  /\ stage' = "done"
  /\ UNCHANGED <<vars, config, answered, heard, history>>

Over == stage \in {"done", "failed"} /\ UNCHANGED allVars

Detect ==
  \/ AnswerBatch \/ BatchFails \/ MergeNames \/ FindDenied
  \/ Analyze \/ AnalyzeFails \/ AnalyzeEmpty \/ Filter

DetectNext == Cut \/ Detect \/ Over

DetectSpec == DetectInit /\ [][DetectNext]_allVars

\* Every call has a timeout.
FairDetectSpec == DetectSpec /\ WF_allVars(Cut) /\ WF_allVars(Detect)

-----------------------------------------------------------------------------
\* The scores the service that has the type was of the opinion of, in any unit.
Opinions(type, p) ==
  IF type \in Served
  THEN {s.score : s \in {t \in spotted : /\ t.glance.place = p
                                        /\ config.labels[t.glance.label] = type}}
  ELSE {s.score : s \in {t \in sighted : t.type = type /\ t.from = p.from /\ t.to = p.to}}

Wanted(type, p) == p \notin Exempt /\ ~(type = Person /\ p \in Implausible)

\* Nothing a service is sure enough of is lost between the thresholds, the
\* labels, the windows and the batches, and nothing else is added: when
\* detection succeeds, every unit was answered, Presidio was heard on every
\* type that is left to it, and what comes out is, of each enabled type, each
\* place whose best score reaches the type's own threshold, with that score,
\* and the deny-listed places of the types Presidio is not asked for.
FindingsExact ==
  stage = "done" /\ ~emptied =>
    /\ Asked # {} => answered = units
    /\ \A t \in config.entities, p \in Places : ~Empty /\ t \notin Served => Opinions(t, p) # {}
    /\ found = UNION {
         {[type |-> t, from |-> p.from, to |-> p.to, score |-> Most(Opinions(t, p))] :
            p \in {q \in Places : /\ Wanted(t, q) /\ Opinions(t, q) # {}
                                 /\ Most(Opinions(t, q)) >= Threshold(t)}}
         \cup {[type |-> t, from |-> p.from, to |-> p.to, score |-> Most(Score)] :
                 p \in {q \in Denied(t) : Wanted(t, q) /\ t \in Served}} :
         t \in config.entities}

\* Every detection ends: cutting, the batches and the calls.
DetectionEnds == <>(stage \in {"done", "failed"})
=============================================================================
