# A TLA+ model of the Palena pseudonymizer

The pseudonymizer is a guardrail service beside an LLM gateway. Before an LLM
call the gateway sends it the texts and images of the request (*pre-call*); the
service replaces personal data by pseudonyms and remembers them in a mapping per
session in Redis. After the call (*post-call*) it puts the real values back.
Pre-call fails closed, post-call is best-effort.

This directory models that service: what can go wrong when requests of one
session overlap, when a store or a detector fails between two steps, when an
answer arrives in pieces, and what the service promises in spite of it.

Checking needs TLC, proving needs TLAPS:

    tlc -config TextPipeline_overlap.cfg MCTextPipeline.tla
    tlapm TextPipelineProofs.tla    # and the other *Proofs and *Theorems

`PROJECT.json` lists the runs, which source lines each definition models, a
mutant for each property, the hazards and the findings.

## 1. Inventory

Paths are under `src/internal/` unless they say otherwise.

| Component | State | Operations | Hard behaviour | Right when |
|---|---|---|---|---|
| Text pipeline `text/handler.go` | none of its own; a working copy per text | `Pseudonymize`, `Reverse`, `ReverseStream` | several detector and Redis calls per text, other requests in between | detected and known names never leave in clear; what leaves can be restored |
| Mapping store `mapping/redis.go` | one Redis hash per session, with a TTL | `GetMapping`, `AddMappings` (Lua), `GetReverseMapping`, `Delete` | lost replies, expiry, erasure, corrupt payloads | entries never change within a lifetime |
| Pseudonym choice `text/strategy.go`, `pools.go`, `components.go` | none | `Assign`, `ComponentMappings` | minting from a stale copy, exhausted pools | distinct pseudonyms, one key per name |
| Filters `text/allowlist.go` | none | type, score, allow-list, plausibility | four thresholds meet | each type is judged by its own threshold |
| Replacer `text/replacer.go` | none | `Replace` | overlapping keys, boundaries, case | whole words only, every mapped name |
| Streaming `text/holdback.go` | none; the gateway keeps what it emitted | `ComputeHoldback` | every way to cut and sample an answer | the client sees a beginning of the restored answer |
| Units `text/units.go` | none | `splitUnits`, `windowLine`, `cutAt` | off-by-one at cuts and overlaps | the span model sees everything |
| NER detector `text/detector.go` | none | `Detect`, `detectNames`, `NERLabelsFor` | what each engine is asked for, windows that report a name twice | whatever a service is sure of comes out, once |
| Deny-list `text/denylist.go` | none | `Find` | terms that overlap or end inside a word | the longest whole words |
| NER cache `text/nercache.go` | an LRU with expiry under a mutex | `spansFor`, `get`, `put` | overlapping calls, expiry, eviction, index shifts | own, fresh, valid answers |
| NER and Presidio clients `ner/`, `presidio/` | none | HTTP calls, in batches | timeouts, malformed bodies, one batch of several | failures become errors |
| Image pass `image/handler.go`, `dataurl.go` | none of its own | `ProcessAll`, `shareWithMapping` | /analyze unreliable, several images, shared mapping | no personal image in clear |
| Orchestrator `pseudonymizer/orchestrator.go` | none | `handleRequest`, `handleResponse` | partial failure, collected flags | fail closed, answers kept |
| Session derivation `session/derive.go` | none | `Derive` | pre- and post-call derive separately | both name one session |
| HTTP handler `httpapi/handler.go` | none | `ServeHTTP`, `mapError` | refusals, error statuses | the documented contract |
| Wäg adapter `httpapi/waeg.go` | none | `ServeWaegHTTP` | a window of uncommitted text per call, its own session fallback | committed text is a beginning of the restored answer |
| Session admin `httpapi/sessions.go` | none | `Delete` | races with running requests | only what a running text minted comes back |
| Router, configuration, audit, language, errors | none that changes | - | - | - |
| Server `src/cmd/server/main.go` | life cycle | start, drain, shutdown | requests in flight, the store closed under them | a stop costs no request |

How they interact: the HTTP handler derives a session and calls the
orchestrator, which calls the text pipeline for each text and then the image
pass. Both load the session's mapping, mint on a private copy and let the store
merge; nothing else is shared between requests except the NER cache. Redis runs
a script atomically, and nothing serialises a *sequence* of commands. The gateway
and the model are outside.

The hazards that follow from this are in `PROJECT.json`, each at its line and
with the properties that would catch it.

## 2. Modules

| Module | Models | Built on |
|---|---|---|
| `Mapping` | mappings, merge, `Assign`, name parts: pure | - |
| `SessionMap` | abstract: what the store promises | - |
| `TextPipeline` | turns of sessions over the store | `Mapping`, refines `SessionMap` |
| `MappingTheorems` | lemmas about mappings, entries and their parts | `Mapping` |
| `TextPipelineProofs` | proofs about turns, overlapping and one after the other | `TextPipeline`, `MappingTheorems` |
| `Replacer` | `Replace`, `matchCase`, `ComputeHoldback`: pure | - |
| `ReplacerTheorems` | lemmas about numbers, strings, the scan and the holdback | `Replacer` |
| `Streaming` | one streamed answer, sampled and emitted | `Replacer` |
| `StreamingProofs` | proofs about it | `Streaming`, `ReplacerTheorems` |
| `Units` | cutting a text for the span model | - |
| `Detector` | detection in one text with either engine | `Units` |
| `DetectorProofs` | proofs about both | `Detector` |
| `NERCache` | overlapping detector calls over the cache | - |
| `NERCacheProofs` | proofs about it | `NERCache` |
| `ImagePass` | the image pass of overlapping requests | `Mapping`, refines `SessionMap` |
| `SessionId` | session derivation: pure | - |
| `Guardrail` | LLM calls end to end | `ImagePass`, `SessionId` |
| `Server` | the life of the process around them | `Guardrail` |
| `ServerProofs` | proofs about images, calls and the process | `Server`, `MappingTheorems` |
| `Waeg` | requests of the Wäg gateway through its adapter | `Replacer`, `SessionId` |
| `WaegProofs` | proofs about it | `Waeg`, `ReplacerTheorems` |
| `MC*` | small instances of each | |

### TextPipeline

A *turn* is a pre-call request, the model's answer and the post-call request.
`pc[t]` is where the request stands: `detect` (before the detector), `load`
(before `GetMapping`), `assign` (in `assignNew`'s loop, then before
`AddMappings`), `rewrite` (before `Replace`), `sent`, `answered`, `over` or
`failed`. `store` is the mapping field of each session, `scratch`, `fresh` and
`view` are `assignNew`'s copy, `newMappings` and `merged`. Every Redis command
and detector call is a step of its own, so other turns, erasure and faults run
between any two. `life`, `seen`, `kept`, `released` and `known` are history: they
record what the properties compare and no guard of the program reads them,
except that `life` bounds how often a session is forgotten.

A string is a member of `Name`. What the code asks of a string is a constant
function: `Fold` (its case-insensitive class), `Fields` (its words), `Safe`
(`isSafeComponent`), `AllowList`. A text is what it mentions and which strings
occur in it. `Raw` is what the detector may return, with misses, wrong types,
low scores and allow-listed terms. Pools are sequences; the HMAC slot of a name
is a constant, so a run can make two names want the same pool entry. The two
numbered series (`<TYPE_n>`, `Prefix-n`) end at `MaxIndex`, above what a run needs.

The faults are a constant set: `detector` and `store` (a call fails), `reply`
(the script ran, its reply is lost: the step may be repeated, as the client
library does, or fail), `forget` (erasure, expiry, eviction), `corrupt`.

The inverse is built in Go's random map order. `Inverse` is therefore the set of
all reals a pseudonym may be restored to.

### Replacer and Streaming

These are character by character, because their properties are about
boundaries. A regular expression of alternatives sorted by length is the longest
key at a position (`Match`). The module takes the keys of one mapping to differ
in more than case; `TextPipeline` shows when they do not. The gateway emits what
is new in a sample except the held-back end, as the protocol document says.

### Units

Positions are character indices; only the class of a character matters (white
space, line feed, sentence end, other). One action per line or window. Byte
offsets are left out.

### Detector

`Cut` is a step of `Units`; then one step per batch of the span model, one for
the merge of its answers, the deny-list, Presidio and the filters. `config` is
one of a set of configurations: the engine, the enabled types, the labels and
the thresholds, from which `main.go` derives what each service is asked for
(`Asked`, `NERMin`, `PatternEntities`, `MinScoreThreshold`). The services see
each place as they like; what they see is recorded (`spotted`, `sighted`), asked
for or not, so that `FindingsExact` can compare what comes out with what should.
A place is an interval of the text, and where a deny-listed term stands is given.
A service's unusable answers are one failure. The cache is `NERCache`'s subject,
and `TextPipeline` abstracts all of this to `Raw`.

### NERCache

`get` and `put` are atomic under the mutex, but read the clock before taking it:
`Now(c)` is any time since the call's previous step. `out` also records when a
line's spans were read, for the property about staleness. A mis-sized answer
fails the call, a malformed span only when the spans are validated, after they
were cached. The cache is on, as in the default configuration.

### ImagePass

An image is a model value with a source and with what can be read in it. The
redactor is external: `/analyze` may find everything or nothing, `/redact` paints
over all personal data and may or may not re-encode any other image. A remote
image that is over the cap fails the fetch; a data URL over the cap is "too
large". The configured action is a variable that is chosen at the start and
never changes. The module has no erasure or corruption; `TextPipeline` has them.

### Guardrail

The refusals of `ServeHTTP`, the orchestrator's two flows, and the gateway, which
fails closed and substitutes what a response has. A text mentions one name or
none, and `Pseudonymize` is one step: its interleavings are `TextPipeline`'s
subject. The image steps are those of `ImagePass`, the session of a request is
`Derive` of what identifies it.

### Server

`Guardrail` says what a request does, `Server` when it is served: a request
arrives while the process is up and works on until the process ends. A signal
starts the drain; when the last request is answered, or the shutdown timeout
passes, `run` returns and its deferred calls close the store, under requests that
are left in the second case: their next Redis command fails (`FailsWithoutStore`)
or the process ends first (`Exit`), and their callers get no response (status 0).
A crash does the same without closing anything. The mappings outlive all of it.

### Waeg

The adapter gets one text per call. A streamed answer is checked window by
window: the gateway keeps what is not committed, the response replaces it and
says how much to hold. `SessionOf` is the adapter's chain of identifiers, `Learn`
the mapping after a prompt (one text per request), name by name (`WithName`); a
name for which the pool is exhausted gets no entry, and `Enough` leaves such
prompts to `TextPipeline`, which has the numbered series the code goes on with.
`Restored` is `ReverseStream`. The gateway may send a masked conversation twice, as the guide
has it. What identifies the requests is one of a set, from the same user to
nothing at all.

## 3. Runs

Passing runs:

| Run | Instance | Shows |
|---|---|---|
| `text_overlap` | 2 overlapping turns, 1 session, 5 texts, every fault, a loss, fair | nothing detected or known leaves in clear, what left is persisted and stable, the store refines `SessionMap`, a name enters it, erased before or not, only with the entries minted for a text at work; requests are answered; `IInv` |
| `text_serial` | 3 turns one after the other, failures, lost replies | pseudonyms are distinct, one key per name, the right person is restored |
| `stream_echo` | every prompt of up to 4 characters over a small alphabet, longer ones around a full name, two answers of the model's own | an echo is restored at every moment, however it is cut; so is any answer whose pseudonyms stand apart |
| `detect_texts` | every text of up to 6 characters, lines of up to 12, windows of 8; one text of two windows under 6 configurations, 3 scores, 2 places, batches of one unit, fair | nothing is lost, units fit, names on an edge are seen whole; what a service is sure of comes out exactly once; detection ends |
| `ner_calls` | 2 calls, 3 lines, 2 entries, clock to 2 with a TTL of 2, fair | consistent cache, own and fresh answers, calls end |
| `image_requests` | 5 overlapping requests, every kind of image, each setting of the action | no personal image in clear, mapping promise |
| `call_end_to_end` | 2 calls of a conversation, faults everywhere, 2 stops or crashes | only protected content is sent, answers kept and restored, a stop within its timeout costs no request |
| `waeg_calls` | 2 requests, one streamed, prompts of up to 4 characters, 5 relations of their identities | an echo is restored window by window, an answer without pseudonyms arrives as it is however it is cut and held, nobody sees a name of another session |

Why the bounds are enough. Two overlapping turns of one session already give
every order of two loads, two mints and two merges; a third only repeats the
roles. One loss can fall between any two of their commands; the proofs cover any
number. Capacity 2 with 3
lines evicts. The clock passes one TTL, and an entry can be read halfway through
it. A window of 8 characters is the smallest with an overlap of 3, and 3 the
shortest overlap in which a cut can fall inside a name of two words; 12
characters are two windows. A batch of one unit makes two windows two batches,
and three scores put one below, at and above each threshold. Two stops reach
both requests of a call in one behaviour, and a restart between them. That an overlap of half a window or more is
replaced by a quarter is left to the proofs, which cover every size. Most of
what the passing runs check of safety is proved without bounds as well
(section 4).

The other runs check one statement each that a document or a comment makes and
the code does not keep; TLC finds the counterexample.

| Run | Statement | What happens |
|---|---|---|
| `text_collision` | two names get distinct pseudonyms | overlapping requests mint from equal copies; the merge looks at keys only |
| `text_erased` | a known name never leaves in clear | erased between load and merge |
| `stream_shadowed` | a mapped name is rewritten | the full name is rejected for a letter before it and copied whole, with the last name in it, which is a key and a word of its own |
| `waeg_window` | a during-call restores the uncommitted window | a window of white space counts as absent, the whole answer so far is sent again |

Some properties are weaker than the documents because of these.
`NoDetectedNameInClear` excepts a session that was forgotten between load and
merge, and `RightPersonRestored`, `DistinctPseudonyms` and `OneKeyPerName` are
checked for turns that do not overlap. `OnlyMintedEnters` lets the new entries of
a text at work return after an erasure: its merge may have been planned before
the session was erased, or be repeated afterwards, and nothing tells it so. What
the request had loaded, or minted for earlier texts, never returns.
`WindowsRestored` and `PlainAnswerKept` except answers with a blank window,
`FindingsExact` an empty body of Presidio, and `NoForeignName`
requests without any identification (see below for the last two).

### Divergences without a run

Modelling met more statements that the code does not keep. The modules have the
steps that lead to most of them; the runs are kept for the four above.

- `context/PSEUDONYMIZATION_ALGORITHM.md:105`, "so `Novartis` and `novartis`
  share one pseudonym": not when two requests overlap, since the merge script
  (`mapping/redis.go:57`) compares keys exactly. They get two when the request
  that loads later finds the pseudonym of the first taken by another name.
- `text/denylist.go:75`, "every whole-word occurrence of a deny-listed term": the
  expression of a term finds no match inside another of its matches, even one
  that is no whole word. With the term "a a" the second place in "xa a a" is
  neither returned nor overlapped by one that is.
- `context/FAILURE_MODES.md:49`, "Continue with empty mapping (fresh start)": a
  payload that is not JSON reads as empty, but the merge script
  (`mapping/redis.go:52`) fails on it, and each attempt postpones its expiry.
- `text/handler.go:248`, a minted pseudonym "is never allowed to be a substring"
  of the text: the first and last name of it (`:317`) are not checked.
- `context/PSEUDONYMIZATION_ALGORITHM.md:295`, prefixes are consistent: a
  complete pseudonym is not held back although the next characters may make it
  part of a longer word ("Jordan", then "Jordanian"). Nor is one that begins
  directly behind another: `ComputeHoldback` looks for the boundary in the
  restored text, where the name put for `<PERSON_1>` ends in a letter, so the
  first character of a `<PERSON_2>` behind it is emitted as it is.
- The same document, `:313`, "applying the same mapping twice [...] is a no-op":
  a key that is a word of a pool pseudonym is rewritten inside it.
- `text/nercache.go:22`, "Errors are never cached.": `spansFor`
  (`text/detector.go:123`) stores an answer before `detectNames` finds it
  malformed, and every call with that line fails until it expires.
- `context/IMAGE_PIPELINE.md:189`, "No relevant PII | Copy of input (unchanged)":
  any difference in bytes counts as a finding (`image/handler.go:254`), and the
  redactor may re-encode.
- `context/SESSION_AND_STATE.md:3`, pseudonyms "must be stable across the
  pre-call and post-call phases": when the session id is in the metadata of the
  pre-call's messages and the post-call, as in the examples of
  `context/PROTOCOL.md:231`, has none, `Derive` names two sessions.
- `context/FAILURE_MODES.md:36` reserves 500 for the service's own bugs: an image
  that cannot be fetched, is too large or malformed is answered 500
  (`httpapi/handler.go:234`).
- `httpapi/types.go:8`, "Extra fields are accepted and ignored": the decoder
  (`httpapi/handler.go:80`) refuses them with 400.
- `image/handler.go:70`, the allow-list matches "the text handler": the image
  pass (`:327`) maps the parts of a read name without looking at it.
- `presidio/analyzer.go:73`, an error for a "non-JSON body", and
  `context/FAILURE_MODES.md`, "Presidio returns malformed JSON | Detection
  broken | 502": a body that is empty decodes to the end of input
  (`analyzer.go:120`) and passes for no detections (`Detector!AnalyzeEmpty`).
- `docs/reference/environment.md:65`, deny-listed terms are "**always
  pseudonymized**": the allow-list and the filter of implausible names come after
  the deny-list (`text/handler.go:144`) and drop such a detection too.
- `session/derive.go:93`, "never let two unrelated requests collide on empty":
  the adapter gives requests that carry no identification the one request id
  `waeg-anon` (`httpapi/waeg.go:131`), and so one session.
- `docs/reference/http-protocol.md:93`, `DELETE` erases a session: the handler
  (`httpapi/sessions.go:69`) uses the path's id as it is, while `sanitize`
  (`session/derive.go:111`) stores a long or unprintable one under its hash.
- `context/PROTOCOL.md:34` and `docs/reference/http-protocol.md:86`, readiness
  covers the analyzer: `main.go:187` wires no pinger for it.
- `context/SESSION_AND_STATE.md:187`, drain the requests "first, then close the
  Redis client": not when the shutdown timeout passes (`main.go:238`).

### Fairness

`text_overlap` assumes weak fairness of the steps of a request and of nothing else:
each call has a timeout in the code (`redis.go`, `client.go`, `analyzer.go`), so
the request takes its next step or fails. The model, the faults and the start of
a turn are not fair, and neither is the failure of a call as long as it can
succeed. A lost reply may recur for ever in principle; the fair `Persist` and
`PersistFails` end it, as the client library's bounded retries do. `ner_calls`
assumes the same of a call, `detect_texts` of the loop that cuts and of the calls
of one detection.

## 4. Proofs

Every theorem is about the specification of its module, for every value of the
constants that the module's assumptions allow: any number of sessions, turns,
calls, texts, images, names, lines and places, any pools, any windows, any
configuration, any mapping between strings and every set of faults. The
assumptions give the constants their types; beyond types they say that `NoName`
is not a name, `Corrupt` not a mapping and `NoEntry` not an entry, that a text in
which something may be found is not blank, that there is a highest score, that
deny-listed terms stand at finitely many places of a text, none of them empty,
and that keys, pseudonyms and answers are not empty and a streamed answer's
`Backward` inverts its `Forward`. Nothing is assumed of `Fold`, the pools, the
detectors or the order of requests, except where the last column says so.

| Theorem | Property | Needs |
|---|---|---|
| `TextPipelineProofs!TypeCorrect` | `TypeOK` | |
| `TextPipelineProofs!Invariance` | `IInv` | |
| `TextPipelineProofs!DetectedNamesCovered` | `NoDetectedNameInClear` | |
| `TextPipelineProofs!EarlierNamesCovered` | `EarlierNamesRewritten` | |
| `TextPipelineProofs!ReleasedStaysPersisted` | `ReleasedIsPersisted` | |
| `TextPipelineProofs!PseudonymsStable` | `StablePseudonyms` | |
| `TextPipelineProofs!StoreRefinesPromise` | `StoreKeepsPromise` (refines `SessionMap`) | |
| `TextPipelineProofs!OnlyMintedNamesEnter` | `OnlyMintedEnters` | |
| `TextPipelineProofs!OneKeyForAName` | `OneKeyPerName` | `Serial` |
| `TextPipelineProofs!OneNameForAPseudonym` | `DistinctPseudonyms` | `Serial`, `PseudonymsApart` |
| `TextPipelineProofs!AnswersNameTheRightPerson` | `RightPersonRestored` | `Serial`, `PseudonymsApart`, `NothingLost` |
| `DetectorProofs!AllSeen` | `EverythingSeen` | |
| `DetectorProofs!AllUnitsFit` | `UnitsFit` | |
| `DetectorProofs!EdgesSeenWhole` | `NamesSeenWhole` | |
| `DetectorProofs!NothingIsLost` | `FindingsExact` | |
| `DetectorProofs!DetectionCutsUnits` | detection refines `Units` | |
| `DetectorProofs!DetectionsTyped` | `DetectTypeOK` | |
| `DetectorProofs!DeniedTermsFound` | a deny-listed term is found, or overlaps one of its type that is found, unless an earlier match of the same term runs into it | |
| `NERCacheProofs!CallsTyped` | `TypeOK` | |
| `NERCacheProofs!CacheStaysConsistent` | `CacheConsistent` | |
| `NERCacheProofs!AnswersAreOwn` | `OwnAnswers` | |
| `NERCacheProofs!NoStaleAnswer` | `NotStale` | |
| `StreamingProofs!StreamTyped` | `TypeOK` | |
| `StreamingProofs!AnswersRestored` | `AnswerRestored` | (`Apart`, in the property) |
| `StreamingProofs!EchoesRestored` | `EchoRestored` | `Apart`, whole echo restores to the prompt |
| `ServerProofs!ImagesTyped` | `ImageTypeOK` | |
| `ServerProofs!PersonalDataRedacted` | `ImagesProtected` | |
| `ServerProofs!ReadNamesStored` | `ReadNamesMapped` | |
| `ServerProofs!ImagesRefinePromise` | `ImagesKeepPromise` (refines `SessionMap`) | |
| `ServerProofs!ServerTyped` | `ServerTypeOK` | |
| `ServerProofs!DrainLosesNothing` | `StopsGracefully` | |
| `ServerProofs!ModelSeesNoName` | `OnlyProtectedSent` | `ReadNamesDiffer` |
| `ServerProofs!AnswersDelivered` | `AnswerKept` | `NoDocumentsBack` |
| `ServerProofs!NamesComeBack` | `NamesRestored` | `InTurn`, `SameSession`, `NoPseudonymSent`, `PseudonymsApart` |
| `WaegProofs!WaegTyped` | `TypeOK` | |
| `WaegProofs!MappingsIsolated` | a mapping has only names of its own requests | `IdentifiersApart` |
| `WaegProofs!PlainAnswersKept` | `PlainAnswerKept` | |

The hypotheses of the last column are conditions of the code, and the instances
meet them.

- `Serial`: a turn begins when all others are over. Turns that overlap do
  violate the three properties (run `text_collision`). `InTurn` is the same for
  calls: those of one session begin one after the other.
- `PseudonymsApart`: no full, first or last name occurs twice in the pools, in
  any case. The default pools (`config/config.go:144`) are such; the code does not
  check an operator's own.
- `NothingLost`: the store neither forgets nor garbles the session. After an
  erasure a late answer may be restored to nobody or to somebody else.
- `ReadNamesDiffer`: no image shows a name that is also a pseudonym of its type.
  The text pass reserves the text a pseudonym is minted for
  (`text/handler.go:167`), the image pass reserves nothing (`image/handler.go`,
  `shareWithMapping`): it could map such a name to itself, and a text that
  mentions it would then pass unchanged.
- `NoDocumentsBack`: the gateway sends no documents with an answer. A prompt
  with documents is blocked before there is one; an answer with documents would
  be blocked, and so lost.
- `SameSession`: the post-call identifies the session of its pre-call. With the
  session id in the metadata of one only, `Derive` names two (section 3).
- `NoPseudonymSent`: no prompt mentions a configured pseudonym or a part of one.
  Such a mention is not told from the pseudonym of somebody else on the way back.
- `Apart`: where keys of the inverse mapping occur in an answer, they are words
  in every beginning of it, none is the beginning of a longer one there, and
  something is between any two. `Streaming` explains each part; without the
  last one the client is sent a wrong character (section 3, consistent prefixes).
- `IdentifiersApart`: hashed identifiers do not collide, no session id equals a
  user or request id, no user id a request id, and request ids are unique. The
  adapter puts all three into one name space (`httpapi/waeg.go:122`).

### The text pass

None of the safety properties is inductive. `IInv` adds what a turn carries
between steps: `ShownIsPersisted` extends the persisted substitutions from those
released to those *about to be* released (the view) and those *read* and perhaps
used unchanged (the loaded part of the working copy, `Loaded`), since `UseLoaded`
rewrites from a mapping that was read long before. `ShownAgrees` is the same for
two turns; it is needed of its own because facts of an earlier lifetime are no
longer in the store. `HandledBy` says that `assignNew` has a key for each
detection it is past, `CoveredBy` that the view has one, and `KnownBy` that the
keys a turn began with are in every mapping of the same lifetime.

The argument is one lemma, `TurnStep`: a step of one turn keeps `IInv` if the
store only grows, the turn shows nothing that is not in the store and keeps its
own part. Each action is shown to be such a step; `Forget` and `Garble` end a
lifetime, so that all older facts are exempt.

`OnlyMintedEnters` needs one fact more, `FreshDetected`: new entries are only
minted for what the detector reported in the text at work. For turns that wait
for one another, `CopiesAhead` says that the working copy holds all that the
store does, so that a look at the copy is a look at the store; with it spellings
never get a second key. `PseudonymsOwned` says of every copy that two entries
with one pseudonym belong to one name: `MergeApart` and `EntriesApart`
(`MappingTheorems`) show that a pseudonym `Assign` finds free, and the parts of
it that `assignNew` adds, keep that. `AnswersShown` keeps the answer among what
was released, and that is in the store by `IInv`.

### Detection

`Units`: up to the *frontier* (the line or window being worked on) every
character that is not white space is in a unit, and every piece that starts a
word and is at most `Lap` long is whole in one (`WholeSoFar`); the line being cut
is a line. The second rests on two bounds: the overlap is at most half a window
(`LapIsHalf`) and `cutAt` goes back by less than the overlap (`CutLate`). A
negative overlap is excepted; the configuration refuses it.

`Detector`: `DetectInv` says for each stage what was found so far in terms of
what the services saw, whether they were asked or not: `NamesFound` (each place
whose best score reaches what the span model is asked for), then `DeniedFound`,
then `PatternsFound`. `MergedFacts` shows that `detectNames` keeps the best of
what several windows report; `NothingLeft` that no batch is left out;
`FilteredFacts` that the filters leave exactly what `FindingsExact` names, for no
service is asked for less than the types it serves need (`ThresholdFacts`).
That the exclusion of overlapping deny-list matches has a result (`Kept`) is
shown from the least place for which it has none: there are finitely many
places, and each looks only at those before it. The result is among the matches
(`DetectionsTyped`), and what it leaves out overlaps what it keeps.
`DeniedTermsFound` is about every place where a term stands: a place that the
expression passes over has an earlier match of the same term running into it
(`OccurrencesFacts`), which is reported, or overlapped by what is, if it is a
whole word.

`NERCache`: list and map of the cache hold the same lines, each once, within the
capacity; a call's answers are positioned by its `ask` list; what is in the cache
was said by the service about that line and is not older than its expiry tells.

### Images, calls and the process

`ImagePass`: an image is emitted in a form that its source and finding allow,
`shareWithMapping` stores what it minted before the image is redacted, and what a
request handled stays in the store, which only grows.

`Server`: `StepKinds` splits every step of the composition into one handler step
of one call, a cut connection, or a step of the process, so that each invariant
is shown once per handler step. `Protected` follows a call from the mapping it
was accepted with to what the model is sent; `NoSelf` (no string is mapped to
itself) is what makes a rewritten text differ from the original, on which the
reply `NONE` depends. `Kept` follows an answer back. `Graceful` says that a drain
within its timeout leaves nothing in flight. `RestoreInv`
follows a prompt to its answer: which entries rewrote it, that they stay in the
store, and that each pseudonym in the answer has one name there. It rests on the
same `EntriesApart` as the text pass, and on `EarlierOver`: a call that has begun
finds those before it over.

### Scans, streams and windows

`Replace` is a recursive function of the position. That such a function exists
at all is shown from the greatest position from which there is none
(`ScanExists`): a match is never empty (`MatchFacts`), so every step needs the
scan of later positions only. Everything said of it later goes the same way, from
a greatest position where it fails: its result is a string (`ReplaceTyped`), and
text without a key stays (`RestCopied`, `PlainTextStays`).

`AnswersRestored` compares the scan of a beginning of the answer with the scan of
all of it. Both agree up to a match that the beginning cuts off (`SameBeginning`):
keys in it are keys of the whole and matches are equal, because `Apart` keeps
longer keys and word characters from joining them later. The part of a key at the
end begins behind a boundary in the restored text as well, since something is
between it and the key before; so `ComputeHoldback` counts it (`PartHeld`), and
everything that is emitted is a beginning of the restored answer
(`BeginningRestored`). `EchoesRestored` adds what the echo of a prompt restores to.

`MappingsIsolated` follows each key of a mapping to a prompt of a request with
that session (`KeysFromPrompts`); `SessionsRelate` reads from the chain of
identifiers what two such requests share. `PlainAnswersKept` is inductive request by
request (`StepKeeps`): what is committed and what is pending make up what has
arrived of the answer, so a key in the window would be one in the answer
(`OccursBehind`), the window stays as it is (`WindowStays`), and a commit only
splits it (`CommitSplits`). A mapping that grows has more pseudonyms, so an answer
that is plain after a step was plain before it (`PlainBefore`).

### Only model-checked

- Liveness under fairness: `RequestsAnswered`, `CallsEnd`,
  `DetectionEnds`.
- `Streaming!NamesRewritten`, and `EchoRestored` where pseudonyms do not stand
  apart. Neither holds of every mapping: pieces of pseudonyms and of the prompt
  can make up a name when they are joined, and `stream_echo` shows that those of
  its mapping do not.
- `Waeg!WindowsRestored`: a window is restored again in the next call, with a
  mapping that may have grown, so that it depends on how every name and every
  pseudonym may overlap.
- `Waeg!NoForeignName`: the model's own words and restored names may make up
  another name by accident when they are joined, so it depends on the names. What
  a session *knows* is `MappingsIsolated`, for names of any length.

### Assumptions of the instances

Entries of a pool have different first and last words. The MC modules choose
names, parts and pools so that collisions of slots, parts shared by two people,
allow-listed parts and spellings all occur.

## 5. Not modelled

The choice of the analyzer's language, JSON, logging, metrics, parsing and
validating the configuration, the router, the health endpoints and deployment
have no state the properties tell apart. Byte offsets are left out, and with
them the analyzer's repair of offsets and the cache's 32 bits. Of the image pass:
data URLs that decode but are not canonical, a redacted image cut off at the
64 MiB read limit, a response that breaks off while it is read, and a caller that
gives up during an image call. Of the store: payloads that are JSON but not an
object of strings. Of `DELETE`: its authentication and its reply. Of the Wäg
adapter: which refusal a malformed call gets. A write timeout loses a response
that is finished; that the gateway goes on while the handler still works is not
modelled.

## 6. Plan

One run per question: a later module joins a run that stands, or its question
takes the place of a lesser one.

The order follows what the service promises: first that nothing leaves in clear
and everything can be restored (`TextPipeline`, `Streaming`), then what that
rests on (`Units`, `NERCache`, `Detector`), then the composition (`ImagePass`,
`Guardrail`, `Server`) and the second gateway (`Waeg`). These stand. What is left,
in order:

1. Proofs: a condition on mappings under which `NamesRewritten` and
   `WindowsRestored` hold of all texts.
2. `Streaming` with a mapping that grows, or is forgotten, during the stream,
   and several texts in a sample.
3. Late post-calls after an erasure, which need a promise to be checked against.
