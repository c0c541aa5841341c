----------------------------- MODULE ImagePass -----------------------------
(***************************************************************************)
(* The image pass of a pre-call request: for each entry of images[] in     *)
(* order, resolve it, read it with the image redactor's OCR, share the     *)
(* names that were read with the session's mapping, have it redacted and   *)
(* apply the configured action.  Requests of one session overlap.  The     *)
(* redactor is external: /analyze may find nothing in any image, /redact    *)
(* paints over all personal data of an image and may re-encode any other.  *)
(***************************************************************************)
EXTENDS Mapping

CONSTANTS
  Session, Request,
  SessionOf,   \* the session of a request
  Image,
  ImagesOf,    \* the images of a request, in order
  Source,      \* "none", "data", "malformed" or "remote"
  Oversized,   \* images with more than MaxImageBytes bytes
  Personal,    \* images that show personal data
  Read,        \* what /analyze can read in an image
  Entities,    \* the configured entity types; {} for all of them
  PIIActions,  \* values of the setting that is called piiAction here
  MaxImages,   \* MaxImagesPerRequest
  Longer,      \* the pairs of strings in the order shareWithMapping sorts them
  Faults       \* the services that may fail

ASSUME RequestAssumption ==
  /\ SessionOf \in [Request -> Session]
  /\ ImagesOf \in [Request -> Seq(Image)]
ASSUME ImageAssumption ==
  /\ Source \in [Image -> {"none", "data", "malformed", "remote"}]
  /\ Oversized \cup Personal \subseteq Image
  /\ Read \in [Image -> SUBSET [name : Name, kind : Kind]]
  /\ \A i \in Image : Read[i] # {} => i \in Personal
  /\ \A i \in Personal : Source[i] # "none"
ASSUME ImageConfigAssumption ==
  /\ PIIActions \subseteq {"redact", "block", "passthrough"}
  /\ MaxImages \in Nat
  /\ Faults \subseteq {"detector", "redactor", "fetch", "store", "caller"}

VARIABLES
  piiAction, \* the configured action; it never changes
  store,     \* the mapping of each session
  stage,
  outputs,   \* the entries for the images handled so far
  relevant,  \* what was read in the current image, of the configured types
  todo,      \* those shareWithMapping has not handled yet
  scratch,   \* its working copy of the mapping
  fresh,     \* its new mappings
  kinds,     \* entity types the block message will name
  why        \* the error of a failed request

imageVars == <<piiAction, store, stage, outputs, relevant, todo, scratch, fresh, kinds, why>>

Detection == [name : Name, kind : Kind]
Output == [image : Image, form : {"raw", "same bytes", "redacted", "blocked"}]

\* Type invariant of the image pass: every entry of the list ProcessAll returns
\* has one of the forms the code produces.
ImageTypeOK ==
  /\ piiAction \in PIIActions
  /\ store \in [Session -> Mappings]
  /\ stage \in [Request -> {"off", "resolve", "analyze", "load", "assign",
                            "redact", "done", "blocked", "too many", "failed"}]
  /\ outputs \in [Request -> Seq(Output)]
  /\ relevant \in [Request -> SUBSET Detection]
  /\ todo \in [Request -> SUBSET Detection]
  /\ scratch \in [Request -> Mappings]
  /\ fresh \in [Request -> Mappings]
  /\ kinds \in [Request -> SUBSET Kind]
  /\ why \in [Request -> {"none", "decode", "fetch", "too large", "store",
                          "detector", "redactor", "canceled"}]

ImageInit ==
  /\ piiAction \in PIIActions
  /\ store = [s \in Session |-> Empty]
  /\ stage = [r \in Request |-> "off"]
  /\ outputs = [r \in Request |-> << >>]
  /\ relevant = [r \in Request |-> {}]
  /\ todo = [r \in Request |-> {}]
  /\ scratch = [r \in Request |-> Empty]
  /\ fresh = [r \in Request |-> Empty]
  /\ kinds = [r \in Request |-> {}]
  /\ why = [r \in Request |-> "none"]

-----------------------------------------------------------------------------
Goto(r, label) == stage' = [stage EXCEPT ![r] = label]

Current(r) == ImagesOf[r][Len(outputs[r]) + 1]

\* Variant: an entry that is skipped comes back empty.
EmitUnlessRaw(r, form) ==
  /\ outputs' = [outputs EXCEPT ![r] =
                   Append(@, [image |-> Current(r), form |-> IF form = "raw" THEN "" ELSE form])]
  /\ Goto(r, IF Len(outputs[r]) + 1 < Len(ImagesOf[r]) THEN "resolve" ELSE "done")

\* The entry of the current image, and on to the next one.  After a blocked
\* image the others are still handled; the request is blocked at the end.
Emit(r, form) ==
  LET all == Append(outputs[r], [image |-> Current(r), form |-> form])
  IN  /\ outputs' = [outputs EXCEPT ![r] = all]
      /\ Goto(r, IF Len(all) < Len(ImagesOf[r]) THEN "resolve"
                 ELSE IF \E i \in DOMAIN all : all[i].form = "blocked" THEN "blocked"
                 ELSE "done")

Fail(r, error) ==
  /\ Goto(r, "failed")
  /\ why' = [why EXCEPT ![r] = error]
  /\ UNCHANGED <<piiAction, store, outputs, relevant, todo, scratch, fresh, kinds>>

\* ProcessAll: no images, too many, or the first one.
Begin(r) ==
  /\ stage[r] = "off"
  /\ Goto(r, IF ImagesOf[r] = << >> THEN "done"
             ELSE IF Len(ImagesOf[r]) > MaxImages THEN "too many"
             ELSE "resolve")
  /\ UNCHANGED <<piiAction, store, outputs, relevant, todo, scratch, fresh, kinds, why>>

\* An empty entry, or one without bytes, stays as it is.
Skip(r) ==
  /\ stage[r] = "resolve"
  /\ Source[Current(r)] = "none"
  /\ Emit(r, "raw")
  /\ UNCHANGED <<piiAction, store, relevant, todo, scratch, fresh, kinds, why>>

Resolve(r) ==
  /\ stage[r] = "resolve"
  /\ Source[Current(r)] \in {"data", "remote"}
  /\ Current(r) \notin Oversized
  /\ Goto(r, "analyze")
  /\ UNCHANGED <<piiAction, store, outputs, relevant, todo, scratch, fresh, kinds, why>>

\* A remote image over the cap is an error of the fetch.
ResolveFails(r) ==
  /\ stage[r] = "resolve"
  /\ LET i == Current(r)
     IN  \/ Source[i] = "malformed" /\ Fail(r, "decode")
         \/ Source[i] = "data" /\ i \in Oversized /\ Fail(r, "too large")
         \/ /\ Source[i] = "remote"
            /\ i \in Oversized \/ "fetch" \in Faults
            /\ Fail(r, "fetch")

\* /analyze is best-effort: its failures read as no detections.
Analyze(r) ==
  /\ stage[r] = "analyze"
  /\ \E dets \in {{}, Read[Current(r)]} :
       LET chosen == {d \in dets : Entities = {} \/ d.kind \in Entities}
       IN  /\ relevant' = [relevant EXCEPT ![r] = chosen]
           /\ todo' = [todo EXCEPT ![r] = chosen]
           /\ Goto(r, IF chosen = {} THEN "redact" ELSE "load")
  /\ UNCHANGED <<piiAction, store, outputs, scratch, fresh, kinds, why>>

-----------------------------------------------------------------------------
(* shareWithMapping. *)

LoadMapping(r) ==
  /\ stage[r] = "load"
  /\ scratch' = [scratch EXCEPT ![r] = store[SessionOf[r]]]
  /\ fresh' = [fresh EXCEPT ![r] = Empty]
  /\ Goto(r, "assign")
  /\ UNCHANGED <<piiAction, store, outputs, relevant, todo, kinds, why>>

\* One round of its loop.  There is no text a pseudonym could be reserved by,
\* and the parts of a name are not looked up in the allow-list.
ShareNext(r) ==
  /\ stage[r] = "assign"
  /\ \E d \in todo[r] :
       /\ \A e \in todo[r] : e.name = d.name \/ <<d.name, e.name>> \in Longer
       /\ todo' = [todo EXCEPT ![r] = @ \ {d}]
       /\ \/ /\ d.name \in AllowList \/ HasKey(scratch[r], d.name)
             /\ UNCHANGED <<scratch, fresh>>
          \/ /\ d.name \notin AllowList /\ ~HasKey(scratch[r], d.name)
             /\ \E p \in Assign(d.kind, d.name, scratch[r], {}) :
                  LET new == WithParts(d.name, p, Parts(d.kind, d.name, p, scratch[r]))
                  IN  /\ scratch' = [scratch EXCEPT ![r] = Merge(@, new)]
                      /\ fresh' = [fresh EXCEPT ![r] = Merge(@, new)]
  /\ UNCHANGED <<piiAction, store, stage, outputs, relevant, kinds, why>>

\* Variant: the working copy is written back.
StoreCopy(r) == [store EXCEPT ![SessionOf[r]] = scratch[r]]

\* AddMappings merges the new entries into what the store holds by now.
StoreMerged(r) == [store EXCEPT ![SessionOf[r]] = Merge(@, fresh[r])]

\* Without new entries the store is not called.
Persist(r) ==
  /\ stage[r] = "assign"
  /\ todo[r] = {}
  /\ store' = IF fresh[r] = Empty THEN store ELSE StoreMerged(r)
  /\ Goto(r, "redact")
  /\ UNCHANGED <<piiAction, outputs, relevant, todo, scratch, fresh, kinds, why>>

StoreFails(r) ==
  /\ "store" \in Faults
  /\ stage[r] = "load" \/ (stage[r] = "assign" /\ todo[r] = {} /\ fresh[r] # Empty)
  /\ Fail(r, "store")

-----------------------------------------------------------------------------
(* /redact and the decision. *)

\* Variant: only what was read counts.
FoundByReading(r, differs) == relevant[r] # {} /\ differs

PiiFound(r, differs) == relevant[r] # {} \/ differs

Redact(r) ==
  /\ stage[r] = "redact"
  /\ \E differs \in IF Current(r) \in Personal THEN {TRUE} ELSE BOOLEAN :
       LET blocks == PiiFound(r, differs) /\ piiAction = "block"
       IN  /\ Emit(r, IF blocks THEN "blocked"
                      ELSE IF PiiFound(r, differs) /\ piiAction = "redact" THEN "redacted"
                      ELSE "same bytes")
           /\ kinds' = IF blocks THEN [kinds EXCEPT ![r] = @ \cup {d.kind : d \in relevant[r]}]
                       ELSE kinds
  /\ relevant' = [relevant EXCEPT ![r] = {}]
  /\ UNCHANGED <<piiAction, store, todo, scratch, fresh, why>>

RedactFails(r) ==
  /\ "redactor" \in Faults
  /\ stage[r] = "redact"
  /\ Fail(r, "redactor")

\* Whether the list that is returned differs from the one received.
Modified(r) ==
  \E i \in DOMAIN outputs[r] :
    \/ outputs[r][i].form = "redacted"
    \/ outputs[r][i].form = "same bytes" /\ Source[outputs[r][i].image] = "remote"

ImageStep(r) ==
  \/ Begin(r) \/ Skip(r) \/ Resolve(r) \/ ResolveFails(r) \/ Analyze(r)
  \/ LoadMapping(r) \/ ShareNext(r) \/ Persist(r) \/ StoreFails(r)
  \/ Redact(r) \/ RedactFails(r)

Ended(r) == stage[r] \in {"done", "blocked", "too many", "failed"}

ImagesOver == (\A r \in Request : Ended(r)) /\ UNCHANGED imageVars

ImageNext == (\E r \in Request : ImageStep(r)) \/ ImagesOver

ImageSpec == ImageInit /\ [][ImageNext]_imageVars

-----------------------------------------------------------------------------
(* What must hold. *)

\* Fail-closed: the list that is returned shows no personal data, although
\* /analyze may be unavailable at any image -- unless passthrough is asked for.
ImagesProtected ==
  \A r \in Request : stage[r] = "done" /\ piiAction # "passthrough" =>
    \A i \in DOMAIN outputs[r] :
      outputs[r][i].image \in Personal => outputs[r][i].form = "redacted"

\* A name that was read in an image is in the session's mapping before the
\* image is redacted, blocked or forwarded, whatever other requests write
\* meanwhile: the answer can be reversed, and a retry finds the same entry.
ReadNamesMapped ==
  \A r \in Request : stage[r] = "redact" =>
    \A d \in relevant[r] : d.name \in AllowList \/ HasKey(store[SessionOf[r]], d.name)

\* The image pass keeps what SessionMap promises: no entry ever changes.
ImagePromise == INSTANCE SessionMap WITH
  Key <- Name, Value <- Name, None <- NoName,
  map <- store, life <- [s \in Session |-> 0]

ImagesKeepPromise == ImagePromise!Spec
=============================================================================
