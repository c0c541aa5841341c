---------------------------- MODULE ServerProofs ----------------------------
(***************************************************************************)
(* The image pass, the calls of the gateway and the life of the server,    *)
(* for every set of calls, texts, images and sessions, with every service  *)
(* failing and the process stopping at any step: no personal image and no  *)
(* name reaches the model, no answer is lost, and the client gets the      *)
(* names of its prompt back.                                               *)
(***************************************************************************)
EXTENDS Server, MappingTheorems, TLAPS

-----------------------------------------------------------------------------
(* The image pass: what holds between its steps. *)

\* The stages in which a request handles one of its images.
Handling(r) == stage[r] \in {"resolve", "analyze", "load", "assign", "redact"}

\* The list holds an entry for each image handled so far, in order; it is
\* complete when it is returned.
InList(r) ==
  /\ stage[r] = "off" => outputs[r] = << >>
  /\ Handling(r) => Len(outputs[r]) < Len(ImagesOf[r])
  /\ stage[r] = "done" => Len(outputs[r]) = Len(ImagesOf[r])
  /\ \A i \in DOMAIN outputs[r] :
       i \in 1..Len(ImagesOf[r]) /\ outputs[r][i].image = ImagesOf[r][i]

\* Personal data leaves the loop redacted or not at all, and a list with a
\* blocked image is never returned.
Covered(r) ==
  /\ piiAction # "passthrough" =>
       \A i \in DOMAIN outputs[r] :
         outputs[r][i].image \in Personal => outputs[r][i].form \in {"redacted", "blocked"}
  /\ stage[r] = "done" => \A i \in DOMAIN outputs[r] : outputs[r][i].form # "blocked"

\* What was read waits to be shared, is left alone, or has a key in a mapping.
HandledIn(r, m) ==
  \A d \in relevant[r] : d \in todo[r] \/ d.name \in AllowList \/ HasKey(m, d.name)

\* The working copy of shareWithMapping: its keys are stored or will be.
Shared(r) ==
  /\ stage[r] = "load" => todo[r] = relevant[r]
  /\ stage[r] = "assign" =>
       /\ HandledIn(r, scratch[r])
       /\ Keys(scratch[r]) \subseteq Keys(store[SessionOf[r]]) \cup Keys(fresh[r])
  /\ stage[r] = "redact" =>
       \A d \in relevant[r] : d.name \in AllowList \/ HasKey(store[SessionOf[r]], d.name)

ImageInv ==
  /\ ImageTypeOK
  /\ \A r \in Request : InList(r) /\ Covered(r) /\ Shared(r)

-----------------------------------------------------------------------------
Stages == {"off", "resolve", "analyze", "load", "assign",
           "redact", "done", "blocked", "too many", "failed"}
Forms == {"raw", "same bytes", "redacted", "blocked"}

\* No entry of the store is lost or changed.
Grows == \A s \in Session, n \in Name : store[s][n] # NoName => store'[s][n] = store[s][n]

\* A request that is left alone keeps its part of the invariant while the store
\* only grows.
LEMMA LeftAlone ==
  ASSUME ImageInv, NEW q \in Request, Grows, piiAction' = piiAction,
         stage'[q] = stage[q], outputs'[q] = outputs[q], relevant'[q] = relevant[q],
         todo'[q] = todo[q], scratch'[q] = scratch[q], fresh'[q] = fresh[q]
  PROVE  InList(q)' /\ Covered(q)' /\ Shared(q)'
<1>1. InList(q) /\ Covered(q) /\ Shared(q) /\ SessionOf[q] \in Session
  BY RequestAssumption DEF ImageInv
<1>2. InList(q)' /\ Covered(q)'
  BY <1>1 DEF InList, Covered, Handling
<1>3. Keys(store[SessionOf[q]]) \subseteq Keys(store'[SessionOf[q]])
  BY <1>1 DEF Grows, Keys
<1>4. \A name : HasKey(store[SessionOf[q]], name) => HasKey(store'[SessionOf[q]], name)
  BY <1>3, MoreKeys
<1>5. stage'[q] = "load" => todo'[q] = relevant'[q]
  BY <1>1 DEF Shared
<1>6. stage'[q] = "assign" =>
        /\ HandledIn(q, scratch[q])'
        /\ Keys(scratch'[q]) \subseteq Keys(store'[SessionOf[q]]) \cup Keys(fresh'[q])
  BY <1>1, <1>3 DEF Shared, HandledIn
<1>7. stage'[q] = "redact" =>
        \A d \in relevant'[q] : d.name \in AllowList \/ HasKey(store'[SessionOf[q]], d.name)
  BY <1>1, <1>4 DEF Shared
<1> QED BY <1>2, <1>5, <1>6, <1>7 DEF Shared

\* A step of one request leaves the others alone, keeps its own part of the
\* invariant, and so keeps the invariant.
LEMMA RequestStep ==
  ASSUME ImageInv, NEW r \in Request, ImageTypeOK', Grows, piiAction' = piiAction,
         \A q \in Request : q # r =>
           /\ stage'[q] = stage[q] /\ outputs'[q] = outputs[q] /\ relevant'[q] = relevant[q]
           /\ todo'[q] = todo[q] /\ scratch'[q] = scratch[q] /\ fresh'[q] = fresh[q],
         InList(r)', Covered(r)', Shared(r)'
  PROVE  ImageInv'
<1>1. ASSUME NEW q \in Request, q # r PROVE InList(q)' /\ Covered(q)' /\ Shared(q)'
  BY <1>1, LeftAlone
<1> QED BY <1>1 DEF ImageInv

\* The current image is one of the images.
LEMMA CurrentIsImage ==
  ASSUME ImageInv, NEW r \in Request, Handling(r)
  PROVE  /\ Current(r) \in Image /\ outputs[r] \in Seq(Output) /\ Len(outputs[r]) \in Nat
         /\ Len(ImagesOf[r]) \in Nat /\ Len(outputs[r]) < Len(ImagesOf[r])
         /\ Current(r) = ImagesOf[r][Len(outputs[r]) + 1]
<1>1. outputs[r] \in Seq(Output) /\ ImagesOf[r] \in Seq(Image)
  BY RequestAssumption DEF ImageInv, ImageTypeOK
<1>2. Len(outputs[r]) < Len(ImagesOf[r])
  BY DEF ImageInv, InList
<1>3. Len(outputs[r]) \in Nat /\ Len(ImagesOf[r]) \in Nat
  BY <1>1
<1>4. Len(outputs[r]) + 1 \in 1..Len(ImagesOf[r])
  BY <1>2, <1>3
<1> QED BY <1>1, <1>2, <1>3, <1>4 DEF Current

\* An entry for the current image: the list stays covered when the entry of an
\* image with personal data is redacted or blocked.
LEMMA EmitKeeps ==
  ASSUME ImageInv, NEW r \in Request, Handling(r), NEW form \in Forms, Emit(r, form),
         piiAction' = piiAction,
         piiAction # "passthrough" /\ Current(r) \in Personal => form \in {"redacted", "blocked"}
  PROVE  /\ outputs' \in [Request -> Seq(Output)] /\ stage' \in [Request -> Stages]
         /\ \A q \in Request : q # r => outputs'[q] = outputs[q] /\ stage'[q] = stage[q]
         /\ stage'[r] \in {"resolve", "blocked", "done"}
         /\ InList(r)' /\ Covered(r)'
<1> DEFINE entry == [image |-> Current(r), form |-> form]
           all == Append(outputs[r], entry)
           label == IF Len(all) < Len(ImagesOf[r]) THEN "resolve"
                    ELSE IF \E i \in DOMAIN all : all[i].form = "blocked" THEN "blocked"
                    ELSE "done"
<1>1. /\ Current(r) \in Image /\ outputs[r] \in Seq(Output) /\ Len(outputs[r]) \in Nat
      /\ Len(ImagesOf[r]) \in Nat /\ Len(outputs[r]) < Len(ImagesOf[r])
      /\ Current(r) = ImagesOf[r][Len(outputs[r]) + 1]
  BY CurrentIsImage
<1>2. entry \in Output
  BY <1>1 DEF Output, Forms
<1>3. entry.image = Current(r) /\ entry.form = form
  OBVIOUS
<1>e. outputs' = [outputs EXCEPT ![r] = all] /\ stage' = [stage EXCEPT ![r] = label]
  BY DEF Emit, Goto
<1> HIDE DEF entry
<1>4. /\ all \in Seq(Output) /\ Len(all) = Len(outputs[r]) + 1
      /\ \A i \in 1..Len(outputs[r]) : all[i] = outputs[r][i]
      /\ all[Len(outputs[r]) + 1] = entry /\ DOMAIN all = 1..(Len(outputs[r]) + 1)
  BY <1>1, <1>2
<1> HIDE DEF all
<1>5. label \in {"resolve", "blocked", "done"} /\ label \in Stages
  BY DEF Stages
<1>6. label = "resolve" <=> Len(all) < Len(ImagesOf[r])
  OBVIOUS
<1>7. label = "done" => \A i \in DOMAIN all : all[i].form # "blocked"
  OBVIOUS
<1> HIDE DEF label
<1>8. outputs \in [Request -> Seq(Output)] /\ stage \in [Request -> Stages]
  BY DEF ImageInv, ImageTypeOK, Stages
<1>9. /\ outputs' \in [Request -> Seq(Output)] /\ stage' \in [Request -> Stages]
      /\ \A q \in Request : q # r => outputs'[q] = outputs[q] /\ stage'[q] = stage[q]
      /\ outputs'[r] = all /\ stage'[r] = label
  BY <1>e, <1>4, <1>5, <1>8
<1>10. InList(r)'
  <2>1. Len(all) < Len(ImagesOf[r]) \/ Len(all) = Len(ImagesOf[r])
    BY <1>1, <1>4
  <2>2. ASSUME NEW i \in DOMAIN all
        PROVE  i \in 1..Len(ImagesOf[r]) /\ all[i].image = ImagesOf[r][i]
    <3>1. CASE i \in 1..Len(outputs[r])
      <4>1. DOMAIN outputs[r] = 1..Len(outputs[r])
        BY <1>1
      <4> QED BY <3>1, <4>1, <1>4 DEF ImageInv, InList
    <3>2. CASE i = Len(outputs[r]) + 1
      BY <3>2, <1>1, <1>3, <1>4
    <3> QED BY <3>1, <3>2, <1>1, <1>4
  <2> QED BY <2>1, <2>2, <1>5, <1>6, <1>9 DEF InList, Handling
<1>11. Covered(r)'
  <2>1. ASSUME piiAction # "passthrough", NEW i \in DOMAIN all, all[i].image \in Personal
        PROVE  all[i].form \in {"redacted", "blocked"}
    <3>1. CASE i \in 1..Len(outputs[r])
      <4>1. DOMAIN outputs[r] = 1..Len(outputs[r])
        BY <1>1
      <4> QED BY <2>1, <3>1, <4>1, <1>4 DEF ImageInv, Covered
    <3>2. CASE i = Len(outputs[r]) + 1
      BY <2>1, <3>2, <1>3, <1>4
    <3> QED BY <3>1, <3>2, <1>1, <1>4
  <2> QED BY <2>1, <1>7, <1>9 DEF Covered
<1> QED BY <1>5, <1>9, <1>10, <1>11

\* The image pass begins with empty mappings and no image handled.
LEMMA InitImageInv == ImageInit => ImageInv
<1> SUFFICES ASSUME ImageInit PROVE ImageInv
  OBVIOUS
<1>1. ImageTypeOK
  BY EmptyMapping DEF ImageInit, ImageTypeOK
<1>2. \A r \in Request : InList(r) /\ Covered(r) /\ Shared(r)
  BY DEF ImageInit, InList, Covered, Shared, Handling
<1> QED BY <1>1, <1>2 DEF ImageInv

\* A step that leaves the lists and the store alone.
LEMMA QuietStep ==
  ASSUME ImageInv, NEW r \in Request, ImageTypeOK', UNCHANGED <<piiAction, store, outputs>>,
         \A q \in Request : q # r =>
           /\ stage'[q] = stage[q] /\ relevant'[q] = relevant[q]
           /\ todo'[q] = todo[q] /\ scratch'[q] = scratch[q] /\ fresh'[q] = fresh[q],
         Handling(r) \/ ~ Handling(r)', stage'[r] # "done", stage'[r] # "off", Shared(r)'
  PROVE  ImageInv'
<1>1. InList(r)' /\ Covered(r)'
  BY DEF ImageInv, InList, Covered, Handling
<1> QED BY <1>1, RequestStep DEF Grows

\* An error ends a request.
LEMMA FailStep ==
  ASSUME ImageInv, NEW r \in Request, NEW error, Fail(r, error),
         error \in {"decode", "fetch", "too large", "store", "detector", "redactor", "canceled"}
  PROVE  ImageInv'
<1>1. ImageTypeOK'
  BY DEF Fail, Goto, ImageInv, ImageTypeOK
<1>2. stage'[r] = "failed" /\ \A q \in Request : q # r => stage'[q] = stage[q]
  BY DEF Fail, Goto, ImageInv, ImageTypeOK
<1>3. UNCHANGED <<piiAction, store, outputs, relevant, todo, scratch, fresh>>
  BY DEF Fail
<1>4. Shared(r)'
  BY <1>2 DEF Shared
<1> QED BY <1>1, <1>2, <1>3, <1>4, QuietStep DEF Handling

-----------------------------------------------------------------------------
(* One lemma for each step of a request. *)

\* A request that begins has handled none of its images (ProcessAll).
LEMMA BeginStep == ASSUME ImageInv, NEW r \in Request, Begin(r) PROVE ImageInv'
<1> DEFINE label == IF ImagesOf[r] = << >> THEN "done"
                    ELSE IF Len(ImagesOf[r]) > MaxImages THEN "too many"
                    ELSE "resolve"
<1>1. /\ stage[r] = "off" /\ stage' = [stage EXCEPT ![r] = label]
      /\ UNCHANGED <<piiAction, store, outputs, relevant, todo, scratch, fresh, kinds, why>>
  BY DEF Begin, Goto
<1>2. ImagesOf[r] \in Seq(Image) /\ outputs[r] = << >>
  BY <1>1, RequestAssumption DEF ImageInv, InList
<1>3. /\ label \in {"done", "too many", "resolve"}
      /\ label = "resolve" => Len(ImagesOf[r]) > 0
      /\ label = "done" => Len(ImagesOf[r]) = 0
  BY <1>2
<1> HIDE DEF label
<1>4. ImageTypeOK' /\ stage'[r] = label /\ \A q \in Request : q # r => stage'[q] = stage[q]
  BY <1>1, <1>3 DEF ImageInv, ImageTypeOK
<1>5. outputs'[r] = << >> /\ DOMAIN << >> = {} /\ Len(<< >>) = 0
  BY <1>1, <1>2
<1>6. Len(ImagesOf[r]) \in Nat
  BY <1>2
<1>7. InList(r)'
  BY <1>3, <1>4, <1>5, <1>6 DEF InList, Handling
<1>8. Covered(r)' /\ Shared(r)'
  BY <1>3, <1>4, <1>5 DEF Covered, Shared
<1>9. Grows
  BY <1>1 DEF Grows
<1> QED BY <1>1, <1>4, <1>7, <1>8, <1>9, RequestStep

\* An image without bytes is passed on as it came and shows nothing (processOne).
LEMMA SkipStep == ASSUME ImageInv, NEW r \in Request, Skip(r) PROVE ImageInv'
<1>1. /\ stage[r] = "resolve" /\ Source[Current(r)] = "none" /\ Emit(r, "raw")
      /\ UNCHANGED <<piiAction, store, relevant, todo, scratch, fresh, kinds, why>>
  BY DEF Skip
<1>2. Current(r) \notin Personal
  BY <1>1, ImageAssumption
<1>3. Handling(r) /\ "raw" \in Forms
  BY <1>1 DEF Handling, Forms
<1>4. /\ outputs' \in [Request -> Seq(Output)] /\ stage' \in [Request -> Stages]
      /\ \A q \in Request : q # r => outputs'[q] = outputs[q] /\ stage'[q] = stage[q]
      /\ stage'[r] \in {"resolve", "blocked", "done"} /\ InList(r)' /\ Covered(r)'
  BY <1>1, <1>2, <1>3, EmitKeeps
<1>5. ImageTypeOK'
  BY <1>1, <1>4 DEF ImageInv, ImageTypeOK, Stages
<1>6. Shared(r)' /\ Grows
  BY <1>1, <1>4 DEF Shared, Grows
<1> QED BY <1>1, <1>4, <1>5, <1>6, RequestStep

\* A resolved image is neither emitted nor shared yet (resolveInput).
LEMMA ResolveStep == ASSUME ImageInv, NEW r \in Request, Resolve(r) PROVE ImageInv'
<1>1. /\ stage[r] = "resolve" /\ stage' = [stage EXCEPT ![r] = "analyze"]
      /\ UNCHANGED <<piiAction, store, outputs, relevant, todo, scratch, fresh, kinds, why>>
  BY DEF Resolve, Goto
<1>2. /\ ImageTypeOK' /\ stage'[r] = "analyze"
      /\ \A q \in Request : q # r => stage'[q] = stage[q]
  BY <1>1 DEF ImageInv, ImageTypeOK
<1>3. Shared(r)' /\ Handling(r)
  BY <1>1, <1>2 DEF Shared, Handling
<1> QED BY <1>1, <1>2, <1>3, QuietStep

\* An image that cannot be resolved fails the request, which emits nothing.
LEMMA ResolveFailsStep == ASSUME ImageInv, NEW r \in Request, ResolveFails(r) PROVE ImageInv'
<1>1. Fail(r, "decode") \/ Fail(r, "too large") \/ Fail(r, "fetch")
  BY DEF ResolveFails
<1> QED BY <1>1, FailStep

\* What was read is still to be shared; without any there is nothing to share.
LEMMA AnalyzeStep == ASSUME ImageInv, NEW r \in Request, Analyze(r) PROVE ImageInv'
<1>1. /\ stage[r] = "analyze"
      /\ UNCHANGED <<piiAction, store, outputs, scratch, fresh, kinds, why>>
  BY DEF Analyze
<1>2. Handling(r) /\ Current(r) \in Image
  BY <1>1, CurrentIsImage DEF Handling
<1>3. PICK dets \in {{}, Read[Current(r)]} :
        LET chosen == {d \in dets : Entities = {} \/ d.kind \in Entities}
        IN  /\ relevant' = [relevant EXCEPT ![r] = chosen]
            /\ todo' = [todo EXCEPT ![r] = chosen]
            /\ Goto(r, IF chosen = {} THEN "redact" ELSE "load")
  BY DEF Analyze
<1> DEFINE chosen == {d \in dets : Entities = {} \/ d.kind \in Entities}
           label == IF chosen = {} THEN "redact" ELSE "load"
<1>4. chosen \subseteq Detection
  BY <1>2, ImageAssumption DEF Detection
<1>5. /\ relevant' = [relevant EXCEPT ![r] = chosen] /\ todo' = [todo EXCEPT ![r] = chosen]
      /\ stage' = [stage EXCEPT ![r] = label]
  BY <1>3 DEF Goto
<1>6. label \in {"redact", "load"} /\ (label = "redact" => chosen = {})
  OBVIOUS
<1> HIDE DEF chosen, label
<1>7. /\ ImageTypeOK' /\ stage'[r] = label /\ relevant'[r] = chosen /\ todo'[r] = chosen
      /\ \A q \in Request : q # r =>
           stage'[q] = stage[q] /\ relevant'[q] = relevant[q] /\ todo'[q] = todo[q]
  BY <1>1, <1>4, <1>5, <1>6 DEF ImageInv, ImageTypeOK
<1>8. Shared(r)'
  BY <1>6, <1>7 DEF Shared
<1> QED BY <1>1, <1>2, <1>6, <1>7, <1>8, QuietStep

\* What was loaded is in the store (shareWithMapping, GetMapping).
LEMMA LoadMappingStep == ASSUME ImageInv, NEW r \in Request, LoadMapping(r) PROVE ImageInv'
<1>1. /\ stage[r] = "load" /\ stage' = [stage EXCEPT ![r] = "assign"]
      /\ scratch' = [scratch EXCEPT ![r] = store[SessionOf[r]]]
      /\ fresh' = [fresh EXCEPT ![r] = Empty]
      /\ UNCHANGED <<piiAction, store, outputs, relevant, todo, kinds, why>>
  BY DEF LoadMapping, Goto
<1>2. SessionOf[r] \in Session
  BY RequestAssumption
<1>3. /\ ImageTypeOK' /\ stage'[r] = "assign" /\ scratch'[r] = store[SessionOf[r]]
      /\ \A q \in Request : q # r =>
           stage'[q] = stage[q] /\ scratch'[q] = scratch[q] /\ fresh'[q] = fresh[q]
  BY <1>1, <1>2, EmptyMapping DEF ImageInv, ImageTypeOK
<1>4. todo[r] = relevant[r]
  BY <1>1 DEF ImageInv, Shared
<1>5. Shared(r)'
  BY <1>1, <1>3, <1>4 DEF Shared, HandledIn
<1>6. Handling(r)
  BY <1>1 DEF Handling
<1> QED BY <1>1, <1>3, <1>5, <1>6, QuietStep

\* One more name is on the allow-list, has a key, or gets one.
LEMMA ShareNextStep == ASSUME ImageInv, NEW r \in Request, ShareNext(r) PROVE ImageInv'
<1>0. /\ stage[r] = "assign"
      /\ UNCHANGED <<piiAction, store, stage, outputs, relevant, kinds, why>>
  BY DEF ShareNext
<1>1. PICK d \in todo[r] :
        /\ todo' = [todo EXCEPT ![r] = @ \ {d}]
        /\ \/ /\ d.name \in AllowList \/ HasKey(scratch[r], d.name)
              /\ UNCHANGED <<scratch, fresh>>
           \/ \E p \in Assign(d.kind, d.name, scratch[r], {}) :
                LET new == WithParts(d.name, p, Parts(d.kind, d.name, p, scratch[r]))
                IN  /\ scratch' = [scratch EXCEPT ![r] = Merge(@, new)]
                    /\ fresh' = [fresh EXCEPT ![r] = Merge(@, new)]
  BY DEF ShareNext
<1>2. d \in Detection /\ d.name \in Name /\ d.kind \in Kind
  <2>1. todo[r] \in SUBSET Detection
    BY DEF ImageInv, ImageTypeOK
  <2>2. d \in Detection
    BY <2>1
  <2> QED BY <2>2 DEF Detection
<1>3. /\ HandledIn(r, scratch[r]) /\ scratch[r] \in Mappings /\ fresh[r] \in Mappings
      /\ Keys(scratch[r]) \subseteq Keys(store[SessionOf[r]]) \cup Keys(fresh[r])
  BY <1>0 DEF ImageInv, ImageTypeOK, Shared
<1>4. /\ todo' \in [Request -> SUBSET Detection] /\ todo'[r] = todo[r] \ {d}
      /\ \A q \in Request : q # r => todo'[q] = todo[q]
  BY <1>1 DEF ImageInv, ImageTypeOK
<1> DEFINE OneMore ==
      /\ scratch' \in [Request -> Mappings] /\ fresh' \in [Request -> Mappings]
      /\ \A q \in Request : q # r => scratch'[q] = scratch[q] /\ fresh'[q] = fresh[q]
      /\ d.name \in AllowList \/ HasKey(scratch'[r], d.name)
      /\ Keys(scratch[r]) \subseteq Keys(scratch'[r])
      /\ Keys(scratch'[r]) \subseteq Keys(store[SessionOf[r]]) \cup Keys(fresh'[r])
<1>5. OneMore
  <2>1. CASE /\ d.name \in AllowList \/ HasKey(scratch[r], d.name)
             /\ UNCHANGED <<scratch, fresh>>
    BY <2>1, <1>3 DEF ImageInv, ImageTypeOK
  <2>2. ASSUME NEW p \in Assign(d.kind, d.name, scratch[r], {}), NEW new,
               new = WithParts(d.name, p, Parts(d.kind, d.name, p, scratch[r])),
               scratch' = [scratch EXCEPT ![r] = Merge(scratch[r], new)],
               fresh' = [fresh EXCEPT ![r] = Merge(fresh[r], new)]
        PROVE  OneMore
    <3>1. p \in Name
      BY <1>2, AssignIsName
    <3>2. Parts(d.kind, d.name, p, scratch[r]) \in SUBSET (Name \X Name)
      BY <1>2, <3>1, PartsAreNames
    <3>3. new \in Mappings /\ new[d.name] = p
      BY <2>2, <3>1, <3>2, <1>2, WithPartsFacts
    <3>4. /\ Merge(scratch[r], new) \in Mappings /\ Merge(fresh[r], new) \in Mappings
          /\ Keys(Merge(scratch[r], new)) = Keys(scratch[r]) \cup Keys(new)
          /\ Keys(Merge(fresh[r], new)) = Keys(fresh[r]) \cup Keys(new)
      BY <1>3, <3>3, MergeFacts, MergeKeys
    <3>5. /\ scratch' \in [Request -> Mappings] /\ fresh' \in [Request -> Mappings]
          /\ scratch'[r] = Merge(scratch[r], new) /\ fresh'[r] = Merge(fresh[r], new)
          /\ \A q \in Request : q # r => scratch'[q] = scratch[q] /\ fresh'[q] = fresh[q]
      BY <2>2, <3>4 DEF ImageInv, ImageTypeOK
    <3>6. d.name \in Keys(new)
      BY <1>2, <3>1, <3>3, NoNameAssumption DEF Keys
    <3>7. scratch'[r][d.name] # NoName
      BY <3>4, <3>5, <3>6 DEF Keys
    <3>8. HasKey(scratch'[r], d.name)
      BY <1>2, <3>7, KeyCovers
    <3> QED BY <3>4, <3>5, <3>8, <1>3
  <2> QED BY <1>1, <2>1, <2>2
<1>6. \A name : HasKey(scratch[r], name) => HasKey(scratch'[r], name)
  BY <1>5, MoreKeys
<1>7. HandledIn(r, scratch[r])'
  BY <1>0, <1>3, <1>4, <1>5, <1>6 DEF HandledIn
<1>8. Shared(r)'
  BY <1>0, <1>5, <1>7 DEF Shared
<1>9. ImageTypeOK'
  BY <1>0, <1>4, <1>5 DEF ImageInv, ImageTypeOK
<1>10. Handling(r)
  BY <1>0 DEF Handling
<1> QED BY <1>0, <1>4, <1>5, <1>8, <1>9, <1>10, QuietStep

\* The store merges: entries that are there stay, the others are added.
LEMMA StoreMergedGrows ==
  ASSUME ImageInv, NEW r \in Request, store' = StoreMerged(r)
  PROVE  /\ store' \in [Session -> Mappings] /\ Grows
         /\ \A s \in Session : s # SessionOf[r] => store'[s] = store[s]
         /\ Keys(store'[SessionOf[r]]) = Keys(store[SessionOf[r]]) \cup Keys(fresh[r])
<1> DEFINE s == SessionOf[r]
           merged == Merge(store[s], fresh[r])
<1>1. /\ s \in Session /\ store[s] \in Mappings /\ fresh[r] \in Mappings
      /\ store \in [Session -> Mappings]
  BY RequestAssumption DEF ImageInv, ImageTypeOK
<1>2. /\ merged \in Mappings /\ Keys(merged) = Keys(store[s]) \cup Keys(fresh[r])
      /\ \A n \in Name : store[s][n] # NoName => merged[n] = store[s][n]
  BY <1>1, MergeFacts, MergeKeys
<1>3. store' = [store EXCEPT ![s] = merged]
  BY DEF StoreMerged
<1> HIDE DEF merged, s
<1>4. /\ store' \in [Session -> Mappings] /\ store'[s] = merged
      /\ \A u \in Session : u # s => store'[u] = store[u]
  BY <1>1, <1>2, <1>3
<1>5. Grows
  BY <1>2, <1>4 DEF Grows
<1> QED BY <1>2, <1>4, <1>5 DEF s

\* Behind the last name every name that was read is stored, or allow-listed.
LEMMA PersistStep == ASSUME ImageInv, NEW r \in Request, Persist(r) PROVE ImageInv'
<1>1. /\ stage[r] = "assign" /\ todo[r] = {} /\ stage' = [stage EXCEPT ![r] = "redact"]
      /\ store' = IF fresh[r] = Empty THEN store ELSE StoreMerged(r)
      /\ UNCHANGED <<piiAction, outputs, relevant, todo, scratch, fresh, kinds, why>>
  BY DEF Persist, Goto
<1>2. /\ HandledIn(r, scratch[r])
      /\ Keys(scratch[r]) \subseteq Keys(store[SessionOf[r]]) \cup Keys(fresh[r])
  BY <1>1 DEF ImageInv, Shared
<1>3. /\ store' \in [Session -> Mappings] /\ Grows
      /\ Keys(scratch[r]) \subseteq Keys(store'[SessionOf[r]])
  <2>1. CASE fresh[r] = Empty
    <3>1. Keys(fresh[r]) = {}
      BY <2>1, EmptyMapping DEF Keys
    <3> QED BY <2>1, <3>1, <1>1, <1>2 DEF Grows, ImageInv, ImageTypeOK
  <2>2. CASE fresh[r] # Empty
    BY <2>2, <1>1, <1>2, StoreMergedGrows
  <2> QED BY <2>1, <2>2
<1>4. /\ ImageTypeOK' /\ stage'[r] = "redact"
      /\ \A q \in Request : q # r => stage'[q] = stage[q]
  BY <1>1, <1>3 DEF ImageInv, ImageTypeOK
<1>5. \A name : HasKey(scratch[r], name) => HasKey(store'[SessionOf[r]], name)
  BY <1>3, MoreKeys
<1>6. Shared(r)'
  BY <1>1, <1>2, <1>4, <1>5 DEF Shared, HandledIn
<1>7. InList(r)' /\ Covered(r)'
  BY <1>1, <1>4 DEF ImageInv, InList, Covered, Handling
<1> QED BY <1>1, <1>3, <1>4, <1>6, <1>7, RequestStep

\* A store that is away fails the request, which emits nothing.
LEMMA StoreFailsStep == ASSUME ImageInv, NEW r \in Request, StoreFails(r) PROVE ImageInv'
<1> QED BY FailStep DEF StoreFails

\* /redact paints over what is personal: the entry is redacted or blocked.
LEMMA RedactStep == ASSUME ImageInv, NEW r \in Request, Redact(r) PROVE ImageInv'
<1>1. /\ stage[r] = "redact" /\ relevant' = [relevant EXCEPT ![r] = {}]
      /\ UNCHANGED <<piiAction, store, todo, scratch, fresh, why>>
  BY DEF Redact
<1>2. PICK differs \in IF Current(r) \in Personal THEN {TRUE} ELSE BOOLEAN :
        LET blocks == PiiFound(r, differs) /\ piiAction = "block"
        IN  /\ Emit(r, IF blocks THEN "blocked"
                       ELSE IF PiiFound(r, differs) /\ piiAction = "redact" THEN "redacted"
                       ELSE "same bytes")
            /\ kinds' = IF blocks THEN [kinds EXCEPT ![r] = @ \cup {d.kind : d \in relevant[r]}]
                        ELSE kinds
  BY DEF Redact
<1> DEFINE blocks == PiiFound(r, differs) /\ piiAction = "block"
           form == IF blocks THEN "blocked"
                   ELSE IF PiiFound(r, differs) /\ piiAction = "redact" THEN "redacted"
                   ELSE "same bytes"
<1>3. /\ Emit(r, form)
      /\ kinds' = IF blocks THEN [kinds EXCEPT ![r] = @ \cup {d.kind : d \in relevant[r]}]
                  ELSE kinds
  BY <1>2
<1>4. form \in Forms
  BY DEF Forms
<1>5. piiAction # "passthrough" /\ Current(r) \in Personal => form \in {"redacted", "blocked"}
  <2> SUFFICES ASSUME piiAction # "passthrough", Current(r) \in Personal
               PROVE  form \in {"redacted", "blocked"}
    OBVIOUS
  <2>1. differs = TRUE
    OBVIOUS
  <2>2. PiiFound(r, differs)
    BY <2>1 DEF PiiFound
  <2>3. piiAction \in {"redact", "block"}
    BY ImageConfigAssumption DEF ImageInv, ImageTypeOK
  <2> QED BY <2>2, <2>3
<1> HIDE DEF form
<1>6. Handling(r)
  BY <1>1 DEF Handling
<1>7. /\ outputs' \in [Request -> Seq(Output)] /\ stage' \in [Request -> Stages]
      /\ \A q \in Request : q # r => outputs'[q] = outputs[q] /\ stage'[q] = stage[q]
      /\ stage'[r] \in {"resolve", "blocked", "done"} /\ InList(r)' /\ Covered(r)'
  BY <1>1, <1>3, <1>4, <1>5, <1>6, EmitKeeps
<1>8. kinds' \in [Request -> SUBSET Kind]
  <2>1. relevant[r] \in SUBSET Detection /\ kinds \in [Request -> SUBSET Kind]
    BY DEF ImageInv, ImageTypeOK
  <2>2. {d.kind : d \in relevant[r]} \subseteq Kind
    BY <2>1 DEF Detection
  <2> HIDE DEF blocks
  <2>3. CASE blocks
    <3>1. kinds' = [kinds EXCEPT ![r] = kinds[r] \cup {d.kind : d \in relevant[r]}]
      BY <2>3, <1>3
    <3> QED BY <3>1, <2>1, <2>2
  <2>4. CASE ~ blocks
    BY <2>4, <2>1, <1>3
  <2> QED BY <2>3, <2>4
<1>9. /\ relevant' \in [Request -> SUBSET Detection]
      /\ \A q \in Request : q # r => relevant'[q] = relevant[q]
  BY <1>1 DEF ImageInv, ImageTypeOK
<1>10. ImageTypeOK'
  BY <1>1, <1>7, <1>8, <1>9 DEF ImageInv, ImageTypeOK, Stages
<1>11. Shared(r)' /\ Grows
  BY <1>1, <1>7 DEF Shared, Grows
<1> QED BY <1>1, <1>7, <1>9, <1>10, <1>11, RequestStep

\* A redactor that is away fails the request, which emits nothing.
LEMMA RedactFailsStep == ASSUME ImageInv, NEW r \in Request, RedactFails(r) PROVE ImageInv'
<1> QED BY FailStep DEF RedactFails

-----------------------------------------------------------------------------
\* Every step of the image pass keeps the invariant.
LEMMA NextImageInv == ImageInv /\ [ImageNext]_imageVars => ImageInv'
<1> SUFFICES ASSUME ImageInv, [ImageNext]_imageVars PROVE ImageInv'
  OBVIOUS
<1>1. ASSUME NEW r \in Request, ImageStep(r) PROVE ImageInv'
  <2>1. CASE Begin(r) \/ Skip(r) \/ Resolve(r) \/ ResolveFails(r)
    BY <2>1, BeginStep, SkipStep, ResolveStep, ResolveFailsStep
  <2>2. CASE Analyze(r) \/ LoadMapping(r) \/ ShareNext(r) \/ Persist(r)
    BY <2>2, AnalyzeStep, LoadMappingStep, ShareNextStep, PersistStep
  <2>3. CASE StoreFails(r) \/ Redact(r) \/ RedactFails(r)
    BY <2>3, StoreFailsStep, RedactStep, RedactFailsStep
  <2> QED BY <1>1, <2>1, <2>2, <2>3 DEF ImageStep
<1>2. CASE UNCHANGED imageVars
  <2>1. ImageTypeOK'
    BY <1>2 DEF imageVars, ImageInv, ImageTypeOK
  <2>2. UNCHANGED <<piiAction, stage, outputs, relevant, todo, scratch, fresh, store>>
    BY <1>2 DEF imageVars
  <2>3. Grows
    BY <2>2 DEF Grows
  <2>4. ASSUME NEW q \in Request PROVE InList(q)' /\ Covered(q)' /\ Shared(q)'
    BY <2>2, <2>3, LeftAlone
  <2>5. \A q \in Request : InList(q)' /\ Covered(q)' /\ Shared(q)'
    BY <2>4
  <2> QED BY <2>1, <2>5 DEF ImageInv
<1> QED BY <1>1, <1>2 DEF ImageNext, ImagesOver

\* The inductive invariant holds for any number of overlapping requests.
LEMMA Invariance == ImageSpec => []ImageInv
<1> QED BY InitImageInv, NextImageInv, PTL DEF ImageSpec

\* Every entry of a returned list has one of the forms the code produces, and
\* the working copies are mappings.
THEOREM ImagesTyped == ImageSpec => []ImageTypeOK
<1>1. ImageInv => ImageTypeOK
  BY DEF ImageInv
<1> QED BY <1>1, Invariance, PTL

\* Fail-closed: unless passthrough is asked for, no list with personal data
\* that is not redacted is returned, whatever is unavailable or read.
THEOREM PersonalDataRedacted == ImageSpec => []ImagesProtected
<1>1. ImageInv => ImagesProtected
  <2> SUFFICES ASSUME ImageInv, NEW r \in Request, stage[r] = "done",
                      piiAction # "passthrough", NEW i \in DOMAIN outputs[r],
                      outputs[r][i].image \in Personal
               PROVE  outputs[r][i].form = "redacted"
    BY DEF ImagesProtected
  <2> QED BY DEF ImageInv, Covered
<1> QED BY <1>1, Invariance, PTL

\* Before an image is redacted or forwarded, every name read in it is in the
\* session's mapping, whatever other requests store at the same time.
THEOREM ReadNamesStored == ImageSpec => []ReadNamesMapped
<1>1. ImageInv => ReadNamesMapped
  BY DEF ImageInv, Shared, ReadNamesMapped
<1> QED BY <1>1, Invariance, PTL

-----------------------------------------------------------------------------
(* The image pass implements SessionMap. *)

\* The mappings begin as the promise has them.
LEMMA InitRefines == ImageInit => ImagePromise!Init
<1> QED BY DEF ImageInit, ImagePromise!Init, Empty

\* A step of the image pass loses no entry of the store, nor the setting.
LEMMA ImageStepGrows ==
  ASSUME ImageInv, NEW r \in Request, ImageStep(r)
  PROVE  Grows /\ piiAction' = piiAction
<1>1. CASE store' = store
  BY <1>1 DEF Grows, ImageStep, Begin, Skip, Resolve, ResolveFails, Analyze, LoadMapping,
              ShareNext, Persist, StoreFails, Redact, RedactFails, Fail
<1>2. CASE store' # store
  <2>1. Persist(r)
    BY <1>2 DEF ImageStep, Begin, Skip, Resolve, ResolveFails, Analyze, LoadMapping, ShareNext,
                StoreFails, Redact, RedactFails, Fail
  <2>2. store' = StoreMerged(r) /\ piiAction' = piiAction
    BY <1>2, <2>1 DEF Persist
  <2> QED BY <2>2, StoreMergedGrows
<1> QED BY <1>1, <1>2

\* Only Persist writes the store, and it only adds entries.
LEMMA NextRefines ==
  ImageInv /\ [ImageNext]_imageVars => [ImagePromise!Next]_(ImagePromise!smVars)
<1> SUFFICES ASSUME ImageInv, [ImageNext]_imageVars
             PROVE  [ImagePromise!Next]_(ImagePromise!smVars)
  OBVIOUS
<1>1. ASSUME store' = store PROVE UNCHANGED ImagePromise!smVars
  BY <1>1 DEF ImagePromise!smVars
<1>2. ASSUME NEW r \in Request, Persist(r), store' # store PROVE ImagePromise!Next
  <2>1. SessionOf[r] \in Session
    BY RequestAssumption
  <2>2. store' = StoreMerged(r)
    BY <1>2 DEF Persist
  <2>3. /\ store' \in [Session -> Mappings] /\ Grows
        /\ \A s \in Session : s # SessionOf[r] => store'[s] = store[s]
    BY <2>2, StoreMergedGrows
  <2>4. ImagePromise!Learn(SessionOf[r])
    BY <2>3 DEF ImagePromise!Learn, Grows, Mappings
  <2> QED BY <2>1, <2>4 DEF ImagePromise!Next
<1>3. ASSUME NEW r \in Request, ImageStep(r), ~ Persist(r) PROVE store' = store
  BY <1>3 DEF ImageStep, Begin, Skip, Resolve, ResolveFails, Analyze, LoadMapping, ShareNext,
              StoreFails, Redact, RedactFails, Fail
<1>4. CASE UNCHANGED imageVars
  BY <1>1, <1>4 DEF imageVars
<1> QED BY <1>1, <1>2, <1>3, <1>4 DEF ImageNext, ImagesOver

\* Whatever requests overlap and fail, the image pass only ever adds entries to
\* a session's mapping.
THEOREM ImagesRefinePromise == ImageSpec => ImagesKeepPromise
<1>1. ImageSpec => [][ImagePromise!Next]_(ImagePromise!smVars)
  BY Invariance, NextRefines, PTL DEF ImageSpec
<1> QED BY <1>1, InitRefines, PTL DEF ImageSpec, ImagesKeepPromise, ImagePromise!Spec

-----------------------------------------------------------------------------
(* The calls and the process: what holds between their steps. *)

\* A drain that stays within its timeout leaves no request in flight.
Graceful == server = "closed" /\ ~overran => \A r \in Request : ~InFlight(r)

ServerInv ==
  /\ ServerTypeOK
  /\ ImageInv
  /\ Graceful

-----------------------------------------------------------------------------
(* The steps and the types. *)

Phases == {"new", "texts", "images", "replied", "model", "answered",
           "reversing", "back", "over"}

\* What one step of one call does, whoever takes it.
HandlerStep(r) ==
  \/ Accept(r) \/ Refuse(r)
  \/ RewriteText(r) \/ TextFails(r) \/ TextsDone(r) \/ HandleImages(r) \/ Respond(r)
  \/ Forward(r) \/ GiveUp(r) \/ ModelAnswers(r)
  \/ AcceptBack(r) \/ RefuseBack(r)
  \/ ReverseText(r) \/ ReverseUnavailable(r) \/ RespondBack(r) \/ Deliver(r)

\* The gateway is connected for these requests, or about to be.
Open(requests) == \A r \in requests : pc[r] \notin {"model", "over"}

\* Every step of the composition is a step of one call, cuts connections off,
\* or leaves the calls alone.
LEMMA StepKinds ==
  ASSUME [ServerNext]_vars
  PROVE  \/ \E r \in Request : HandlerStep(r)
         \/ \E requests \in SUBSET Request : CutOff(requests) /\ Open(requests)
         \/ UNCHANGED handlerVars
<1>1. ASSUME NEW r \in Request, Serve(r) PROVE HandlerStep(r)
  BY <1>1 DEF Serve, Arrive, Work, FailsWithoutStore, HandlerStep, HandleImages, ImageStep
<1>2. ASSUME NEW r \in Request, Gateway(r) PROVE HandlerStep(r)
  BY <1>2 DEF Gateway, HandlerStep
<1>3. ASSUME NEW r \in Request, Unreachable(r) \/ WriteTimesOut(r)
      PROVE  \E requests \in SUBSET Request : CutOff(requests) /\ Open(requests)
  BY <1>3 DEF Unreachable, WriteTimesOut, Open
<1>4. CASE Process
  BY <1>4 DEF Process, Signal, Drained, DrainTimesOut, Exit, Crash, Boot, Open, InFlight
<1>5. CASE UNCHANGED vars
  BY <1>5 DEF vars
<1> QED BY <1>1, <1>2, <1>3, <1>4, <1>5 DEF ServerNext, Call, AllOver

\* The type invariant, variable by variable.
LEMMA CallTypes ==
  TypeOK <=>
    /\ ImageTypeOK
    /\ pc \in [Request -> Phases]
    /\ texts \in [Request -> Seq(Mention)] /\ sentTexts \in [Request -> Seq(Mention)]
    /\ answer \in [Request -> Seq(Mention)] /\ got \in [Request -> Seq(Mention)]
    /\ reply \in [Request -> Reply]
    /\ sentImages \in [Request -> Seq(Output)]
    /\ aware \in [Request -> [keys : SUBSET Name, found : SUBSET Nat]]
    /\ lapsed \in [Request -> BOOLEAN]
<1> QED BY DEF TypeOK, Phases

\* Errors and answers are replies.
LEMMA ErrorIsReply ==
  ASSUME NEW status \in {0, 200, 400, 401, 413, 499, 500, 502}
  PROVE  /\ Error(status) \in Reply
         /\ Error(status).status = status /\ Error(status).action = ""
         /\ Error(status).texts = << >> /\ Error(status).images = << >>
<1> QED BY DEF Error, Reply

\* What the orchestrator answers is a reply.
LEMMA AnswerIsReply ==
  ASSUME NEW action \in {"NONE", "GUARDRAIL_INTERVENED", "BLOCKED"},
         NEW t \in Seq(Mention), NEW i \in Seq(Output)
  PROVE  /\ Answer(action, t, i) \in Reply
         /\ Answer(action, t, i).status = 200 /\ Answer(action, t, i).action = action
         /\ Answer(action, t, i).texts = t /\ Answer(action, t, i).images = i
<1>1. action \in {"", "NONE", "GUARDRAIL_INTERVENED", "BLOCKED"}
  <2>1. action = "NONE" \/ action = "GUARDRAIL_INTERVENED" \/ action = "BLOCKED"
    OBVIOUS
  <2> QED BY <2>1
<1>2. Answer(action, t, i) \in Reply
  BY <1>1 DEF Answer, Reply
<1>3. /\ Answer(action, t, i).status = 200 /\ Answer(action, t, i).action = action
      /\ Answer(action, t, i).texts = t /\ Answer(action, t, i).images = i
  BY DEF Answer
<1> QED BY <1>2, <1>3

\* A block is a reply.
LEMMA BlockIsReply ==
  /\ Answer("BLOCKED", << >>, << >>) \in Reply
  /\ Answer("BLOCKED", << >>, << >>).status = 200
  /\ Answer("BLOCKED", << >>, << >>).action = "BLOCKED"
<1> QED BY DEF Answer, Reply

\* A refusal is an error of the request's, or the block of its documents.
LEMMA RefusalIsReply ==
  ASSUME NEW quirk \in Quirk \ {"none"}
  PROVE  /\ Refusal(quirk) \in Reply
         /\ \/ Refusal(quirk).status \in {400, 401, 413}
            \/ /\ quirk = "documents"
               /\ Refusal(quirk).status = 200 /\ Refusal(quirk).action = "BLOCKED"
<1>1. CASE quirk = "documents"
  <2>1. Refusal(quirk) = Answer("BLOCKED", << >>, << >>)
    BY <1>1 DEF Refusal
  <2> QED BY <1>1, <2>1, BlockIsReply
<1>2. CASE quirk # "documents"
  <2>1. PICK status \in {400, 401, 413} : Refusal(quirk) = Error(status)
    BY <1>2 DEF Refusal
  <2>2. Error(status) \in Reply /\ Error(status).status = status
    BY DEF Error, Reply
  <2> QED BY <2>1, <2>2
<1> QED BY <1>1, <1>2

\* mapError has no status of its own for anything but these.
LEMMA MappedIsReply ==
  ASSUME NEW error
  PROVE  /\ Error(Status(error)) \in Reply
         /\ Error(Status(error)).status \in {499, 500, 502}
<1>1. PICK status \in {499, 500, 502} : Status(error) = status
  BY DEF Status
<1>2. Error(status) \in Reply /\ Error(status).status = status
  BY DEF Error, Reply
<1> QED BY <1>1, <1>2

\* The texts and the images of a reply are sequences.
LEMMA ReplyFields ==
  \A response \in Reply : response.texts \in Seq(Mention) /\ response.images \in Seq(Output)
<1> DEFINE statuses == {0, 200, 400, 401, 413, 499, 500, 502}
           actions == {"", "NONE", "GUARDRAIL_INTERVENED", "BLOCKED"}
<1>1. Reply = [status : statuses, action : actions, texts : Seq(Mention), images : Seq(Output)]
  BY DEF Reply
<1> HIDE DEF statuses, actions
<1> QED BY <1>1

\* Writing a reply changes that of one request only.
LEMMA ReplyFacts ==
  ASSUME TypeOK, NEW r \in Request, NEW label \in Phases, NEW response \in Reply,
         ReplyWith(r, label, response)
  PROVE  /\ reply' \in [Request -> Reply] /\ pc' \in [Request -> Phases]
         /\ reply'[r] = response /\ pc'[r] = label
         /\ \A q \in Request : q # r => reply'[q] = reply[q] /\ pc'[q] = pc[q]
<1> QED BY CallTypes DEF ReplyWith, To

\* A request that goes on changes its own phase only.
LEMMA ToFacts ==
  ASSUME TypeOK, NEW r \in Request, NEW label \in Phases, To(r, label)
  PROVE  /\ pc' \in [Request -> Phases] /\ pc'[r] = label
         /\ \A q \in Request : q # r => pc'[q] = pc[q]
<1> QED BY CallTypes DEF To

\* One more text is rewritten or restored.
LEMMA TextFacts ==
  ASSUME TypeOK, NEW r \in Request, NEW mention \in Mention,
         texts' = [texts EXCEPT ![r] = Append(texts[r], mention)]
  PROVE  /\ texts' \in [Request -> Seq(Mention)]
         /\ \A q \in Request : q # r => texts'[q] = texts[q]
         /\ texts[r] \in Seq(Mention) /\ Len(texts[r]) \in Nat
         /\ Len(texts'[r]) = Len(texts[r]) + 1
         /\ texts'[r][Len(texts[r]) + 1] = mention
         /\ \A i \in 1..Len(texts[r]) : texts'[r][i] = texts[r][i]
         /\ DOMAIN texts'[r] = 1..(Len(texts[r]) + 1) /\ DOMAIN texts[r] = 1..Len(texts[r])
<1>1. texts \in [Request -> Seq(Mention)] /\ texts[r] \in Seq(Mention)
  BY CallTypes
<1> DEFINE all == Append(texts[r], mention)
<1>2. /\ all \in Seq(Mention) /\ Len(all) = Len(texts[r]) + 1
      /\ all[Len(texts[r]) + 1] = mention
      /\ \A i \in 1..Len(texts[r]) : all[i] = texts[r][i]
      /\ DOMAIN all = 1..(Len(texts[r]) + 1) /\ DOMAIN texts[r] = 1..Len(texts[r])
      /\ Len(texts[r]) \in Nat
  BY <1>1
<1>3. texts' = [texts EXCEPT ![r] = all]
  OBVIOUS
<1> HIDE DEF all
<1>4. texts'[r] = all /\ \A q \in Request : q # r => texts'[q] = texts[q]
  BY <1>1, <1>3
<1> QED BY <1>1, <1>2, <1>3, <1>4

\* The texts of a request and what a text becomes.
LEMMA RewrittenIsMention ==
  ASSUME NEW name \in Mention, NEW m \in Mappings
  PROVE  Rewritten(name, m) \in Mention
<1>1. CASE name # NoName /\ HasKey(m, name)
  <2>1. KeysFor(m, name) # {} /\ KeysFor(m, name) \subseteq Keys(m)
    BY <1>1 DEF HasKey, KeysFor
  <2> QED BY <1>1, <2>1 DEF Rewritten, Keys, Mappings, Mention
<1>2. CASE ~ (name # NoName /\ HasKey(m, name))
  BY <1>2 DEF Rewritten
<1> QED BY <1>1, <1>2

\* What a call brings are sequences of texts and images.
LEMMA SequencesOfCall ==
  ASSUME NEW r \in Request
  PROVE  /\ TextsOf[r] \in Seq(Mention) /\ Len(TextsOf[r]) \in Nat
         /\ DOMAIN TextsOf[r] = 1..Len(TextsOf[r])
         /\ \A i \in 1..Len(TextsOf[r]) : TextsOf[r][i] \in Mention
         /\ Originals(r) \in Seq(Output)
         /\ ImagesOf[r] \in Seq(Image) /\ Len(ImagesOf[r]) \in Nat
         /\ DOMAIN Originals(r) = 1..Len(ImagesOf[r])
         /\ \A i \in 1..Len(ImagesOf[r]) : Originals(r)[i].image = ImagesOf[r][i]
<1>1. TextsOf[r] \in Seq(Mention)
  BY CallAssumption DEF Mention
<1>2. /\ Len(TextsOf[r]) \in Nat /\ DOMAIN TextsOf[r] = 1..Len(TextsOf[r])
      /\ \A i \in 1..Len(TextsOf[r]) : TextsOf[r][i] \in Mention
  BY <1>1
<1>3. /\ ImagesOf[r] \in Seq(Image) /\ Len(ImagesOf[r]) \in Nat
      /\ DOMAIN ImagesOf[r] = 1..Len(ImagesOf[r])
      /\ \A i \in 1..Len(ImagesOf[r]) : ImagesOf[r][i] \in Image
  BY RequestAssumption
<1> DEFINE entry(i) == [image |-> ImagesOf[r][i], form |-> "raw"]
<1>4. Originals(r) = [i \in 1..Len(ImagesOf[r]) |-> entry(i)]
  BY <1>3 DEF Originals
<1>5. \A i \in 1..Len(ImagesOf[r]) : entry(i) \in Output /\ entry(i).image = ImagesOf[r][i]
  BY <1>3 DEF Output
<1> HIDE DEF entry
<1>6. /\ Originals(r) \in [1..Len(ImagesOf[r]) -> Output]
      /\ DOMAIN Originals(r) = 1..Len(ImagesOf[r])
      /\ \A i \in 1..Len(ImagesOf[r]) : Originals(r)[i].image = ImagesOf[r][i]
  BY <1>4, <1>5
<1>7. Originals(r) \in Seq(Output)
  BY <1>3, <1>6
<1> QED BY <1>1, <1>2, <1>3, <1>6, <1>7

-----------------------------------------------------------------------------
(* What every step of a call keeps. *)

\* The other calls are left alone.
Alone(r) ==
  \A q \in Request : q # r =>
    /\ pc'[q] = pc[q] /\ texts'[q] = texts[q] /\ reply'[q] = reply[q]
    /\ sentTexts'[q] = sentTexts[q] /\ sentImages'[q] = sentImages[q]
    /\ answer'[q] = answer[q] /\ got'[q] = got[q]
    /\ aware'[q] = aware[q] /\ lapsed'[q] = lapsed[q]

Steady(r) == TypeOK' /\ ImageInv' /\ Grows /\ piiAction' = piiAction /\ Alone(r)

\* Steps that leave the image pass and the store alone.
LEMMA ImagesAlone ==
  ASSUME ImageInv, UNCHANGED imageVars
  PROVE  ImageInv' /\ ImageTypeOK' /\ Grows /\ piiAction' = piiAction
<1>1. ImageInv'
  BY NextImageInv
<1> QED BY <1>1 DEF ImageInv, Grows, imageVars

\* A step that only replies keeps the types and the image pass as they are.
LEMMA ReplySteady ==
  ASSUME TypeOK, ImageInv, NEW r \in Request, NEW label \in Phases, NEW response \in Reply,
         ReplyWith(r, label, response), UNCHANGED imageVars, lapsed' \in [Request -> BOOLEAN],
         \A q \in Request : q # r => lapsed'[q] = lapsed[q],
         UNCHANGED <<texts, sentTexts, sentImages, answer, got, aware>>
  PROVE  Steady(r)
<1>1. ImageInv' /\ ImageTypeOK' /\ Grows /\ piiAction' = piiAction
  BY ImagesAlone
<1>2. /\ reply' \in [Request -> Reply] /\ pc' \in [Request -> Phases]
      /\ \A q \in Request : q # r => reply'[q] = reply[q] /\ pc'[q] = pc[q]
  BY ReplyFacts
<1>3. TypeOK'
  BY <1>1, <1>2 DEF TypeOK, Phases
<1> QED BY <1>1, <1>2, <1>3 DEF Steady, Alone

\* An accepted request names its session (ServeHTTP).
LEMMA AcceptSteady == ASSUME TypeOK, ImageInv, NEW r \in Request, Accept(r) PROVE Steady(r)
<1>1. /\ ImageInv' /\ ImageTypeOK' /\ Grows /\ piiAction' = piiAction
      /\ To(r, "texts") /\ aware' = [aware EXCEPT ![r].keys = Keys(store[SessionOf[r]])]
      /\ UNCHANGED <<texts, reply, sentTexts, sentImages, answer, got, lapsed>>
  BY ImagesAlone DEF Accept
<1>2. pc' \in [Request -> Phases] /\ \A q \in Request : q # r => pc'[q] = pc[q]
  BY <1>1, ToFacts DEF Phases
<1>3. Keys(store[SessionOf[r]]) \subseteq Name
  BY DEF Keys
<1>4. /\ aware' \in [Request -> [keys : SUBSET Name, found : SUBSET Nat]]
      /\ \A q \in Request : q # r => aware'[q] = aware[q]
  BY <1>1, <1>3, CallTypes
<1>5. TypeOK'
  BY <1>1, <1>2, <1>4 DEF TypeOK, Phases
<1> QED BY <1>1, <1>2, <1>4, <1>5 DEF Steady, Alone

\* A refused request gets one of the refusals (ServeHTTP).
LEMMA RefuseSteady == ASSUME TypeOK, ImageInv, NEW r \in Request, Refuse(r) PROVE Steady(r)
<1>1. PICK quirk \in PreQuirk \ {"none"} : ReplyWith(r, "replied", Refusal(quirk))
  BY DEF Refuse
<1>2. Refusal(quirk) \in Reply /\ "replied" \in Phases
  BY CallAssumption, RefusalIsReply DEF Phases
<1>3. lapsed' \in [Request -> BOOLEAN] /\ UNCHANGED <<imageVars, lapsed>>
  BY CallTypes DEF Refuse
<1> QED BY <1>1, <1>2, <1>3, ReplySteady DEF Refuse

\* A text that fails is answered with a status of its own (mapError).
LEMMA TextFailsSteady == ASSUME TypeOK, ImageInv, NEW r \in Request, TextFails(r) PROVE Steady(r)
<1>1. PICK error \in {"detector", "store", "canceled"} :
        ReplyWith(r, "replied", Error(Status(error)))
  BY DEF TextFails
<1>2. Error(Status(error)) \in Reply /\ "replied" \in Phases
  BY MappedIsReply DEF Phases
<1>3. lapsed' \in [Request -> BOOLEAN] /\ UNCHANGED <<imageVars, lapsed>>
  BY CallTypes DEF TextFails
<1> QED BY <1>1, <1>2, <1>3, ReplySteady DEF TextFails

\* A step that only moves a call on.
LEMMA MoveSteady ==
  ASSUME TypeOK, ImageInv, NEW r \in Request, NEW label \in Phases, To(r, label),
         UNCHANGED <<imageVars, texts, reply, sentTexts, sentImages, answer, got, aware, lapsed>>
  PROVE  Steady(r)
<1>1. ImageInv' /\ ImageTypeOK' /\ Grows /\ piiAction' = piiAction
  BY ImagesAlone
<1>2. pc' \in [Request -> Phases] /\ \A q \in Request : q # r => pc'[q] = pc[q]
  BY ToFacts
<1>3. TypeOK'
  BY <1>1, <1>2 DEF TypeOK, Phases
<1> QED BY <1>1, <1>2, <1>3 DEF Steady, Alone

\* The result of the two passes is a reply: an error, a block, or the lists that
\* changed.
LEMMA OutcomeFacts ==
  ASSUME TypeOK, ImageInv, NEW r \in Request, Ended(r)
  PROVE  /\ Outcome(r) \in Reply
         /\ Outcome(r).status # 200 \/ Outcome(r).action = "BLOCKED" \/
              /\ stage[r] = "done"
              /\ Outcome(r).texts = IF Differs(texts[r], TextsOf[r]) THEN texts[r] ELSE << >>
              /\ Outcome(r).images = IF Modified(r) THEN outputs[r] ELSE << >>
<1>1. texts[r] \in Seq(Mention) /\ outputs[r] \in Seq(Output)
  BY CallTypes DEF ImageInv, ImageTypeOK
<1>2. CASE stage[r] = "failed"
  <2>1. Outcome(r) = Error(Status(why[r]))
    BY <1>2 DEF Outcome
  <2> QED BY <2>1, MappedIsReply
<1>3. CASE stage[r] \in {"blocked", "too many"}
  <2>1. Outcome(r) = Answer("BLOCKED", << >>, << >>)
    BY <1>3 DEF Outcome
  <2> QED BY <2>1, BlockIsReply
<1>4. CASE stage[r] = "done"
  <2> DEFINE t == IF Differs(texts[r], TextsOf[r]) THEN texts[r] ELSE << >>
             i == IF Modified(r) THEN outputs[r] ELSE << >>
  <2>1. PICK action \in {"NONE", "GUARDRAIL_INTERVENED"} : Outcome(r) = Answer(action, t, i)
    BY <1>4 DEF Outcome
  <2>2. t \in Seq(Mention) /\ i \in Seq(Output)
    BY <1>1
  <2> HIDE DEF t, i
  <2>3. /\ Answer(action, t, i) \in Reply
        /\ Answer(action, t, i).texts = t /\ Answer(action, t, i).images = i
    BY <2>2, AnswerIsReply
  <2> QED BY <2>1, <2>3, <1>4 DEF t, i
<1> QED BY <1>2, <1>3, <1>4 DEF Ended

\* A finished request is answered as its flags have it (handleRequest).
LEMMA RespondSteady == ASSUME TypeOK, ImageInv, NEW r \in Request, Respond(r) PROVE Steady(r)
<1>1. Outcome(r) \in Reply /\ "replied" \in Phases
  BY OutcomeFacts DEF Respond, Phases
<1>2. lapsed' \in [Request -> BOOLEAN] /\ UNCHANGED <<imageVars, lapsed>>
  BY CallTypes DEF Respond
<1> QED BY <1>1, <1>2, ReplySteady DEF Respond

\* Handling an image is a step of the image pass.
LEMMA HandleImagesSteady ==
  ASSUME TypeOK, ImageInv, NEW r \in Request, HandleImages(r)
  PROVE  Steady(r)
<1>1. ImageStep(r) /\ UNCHANGED callVars
  BY DEF HandleImages
<1>2. ImageInv'
  BY <1>1, NextImageInv DEF ImageNext
<1>3. Grows /\ piiAction' = piiAction
  BY <1>1, ImageStepGrows
<1>4. TypeOK'
  BY <1>1, <1>2 DEF callVars, TypeOK, ImageInv
<1> QED BY <1>1, <1>2, <1>3, <1>4 DEF Steady, Alone, callVars

\* What a text becomes when it has a new name.
LEMMA NewNameFacts ==
  ASSUME TypeOK, NEW r \in Request, NEW name \in Name,
         NEW p \in Assign(Person, name, store[SessionOf[r]], Occurring(name)),
         NEW m, m = Merge(store[SessionOf[r]], Entries(Person, name, p, store[SessionOf[r]])),
         store' = [store EXCEPT ![SessionOf[r]] = m]
  PROVE  /\ p \in Name /\ m \in Mappings /\ store' \in [Session -> Mappings] /\ Grows
         /\ store'[SessionOf[r]] = m
         /\ \A s \in Session : s # SessionOf[r] => store'[s] = store[s]
<1> DEFINE s == SessionOf[r]
           new == Entries(Person, name, p, store[s])
<1>1. s \in Session /\ store \in [Session -> Mappings] /\ store[s] \in Mappings /\ Person \in Kind
  BY RequestAssumption, CallAssumption, CallTypes DEF ImageTypeOK
<1>2. p \in Name
  BY <1>1, AssignIsName
<1>3. new \in Mappings
  BY <1>1, <1>2, EntriesFacts
<1> HIDE DEF new
<1>4. m = Merge(store[s], new)
  BY DEF new
<1>5. m \in Mappings /\ \A n \in Name : store[s][n] # NoName => m[n] = store[s][n]
  BY <1>1, <1>3, <1>4, MergeFacts
<1> HIDE DEF s
<1>6. store' = [store EXCEPT ![s] = m]
  BY DEF s
<1>7. /\ store' \in [Session -> Mappings] /\ store'[s] = m
      /\ \A u \in Session : u # s => store'[u] = store[u]
  BY <1>1, <1>5, <1>6
<1>8. Grows
  BY <1>5, <1>7 DEF Grows
<1> QED BY <1>2, <1>5, <1>7, <1>8 DEF s

\* A text is rewritten: one more name is stored, or nothing.
LEMMA RewriteTextSteady ==
  ASSUME TypeOK, ImageInv, NEW r \in Request, RewriteText(r)
  PROVE  Steady(r)
<1> DEFINE s == SessionOf[r]
           name == CurrentText(r)
<1>1. /\ InTexts(r)
      /\ UNCHANGED <<piiAction, stage, outputs, relevant, todo, scratch, fresh, kinds, why>>
      /\ UNCHANGED <<pc, reply, sentTexts, sentImages, answer, got, lapsed>>
  BY DEF RewriteText
<1>2. /\ s \in Session /\ store \in [Session -> Mappings] /\ store[s] \in Mappings
      /\ texts[r] \in Seq(Mention) /\ Len(texts[r]) \in Nat
      /\ aware \in [Request -> [keys : SUBSET Name, found : SUBSET Nat]]
  <2>1. /\ ImageTypeOK /\ texts \in [Request -> Seq(Mention)]
        /\ aware \in [Request -> [keys : SUBSET Name, found : SUBSET Nat]]
    BY CallTypes
  <2>2. s \in Session
    BY RequestAssumption
  <2>3. texts[r] \in Seq(Mention)
    BY <2>1
  <2>4. Len(texts[r]) \in Nat
    BY <2>3
  <2>5. store \in [Session -> Mappings] /\ store[s] \in Mappings
    BY <2>1, <2>2 DEF ImageTypeOK
  <2> QED BY <2>1, <2>2, <2>3, <2>4, <2>5
<1>3. name \in Mention
  BY <1>1, <1>2, SequencesOfCall DEF InTexts, CurrentText
<1>4. /\ store' \in [Session -> Mappings] /\ Grows
      /\ aware' \in [Request -> [keys : SUBSET Name, found : SUBSET Nat]]
      /\ \A q \in Request : q # r => aware'[q] = aware[q]
      /\ \E mention \in Mention : texts' = [texts EXCEPT ![r] = Append(texts[r], mention)]
  <2>1. CASE /\ name \notin {NoName} \cup AllowList /\ ~HasKey(store[s], name)
             /\ \E p \in Assign(Person, name, store[s], Occurring(name)) :
                  LET m == Merge(store[s], Entries(Person, name, p, store[s]))
                  IN  /\ store' = [store EXCEPT ![s] = m]
                      /\ texts' = [texts EXCEPT ![r] = Append(@, Rewritten(name, m))]
             /\ aware' = [aware EXCEPT ![r].found = @ \cup {Len(texts'[r])}]
    <3>1. name \in Name
      BY <2>1, <1>3 DEF Mention
    <3>2. PICK p \in Assign(Person, name, store[s], Occurring(name)) :
             LET m == Merge(store[s], Entries(Person, name, p, store[s]))
             IN  /\ store' = [store EXCEPT ![s] = m]
                 /\ texts' = [texts EXCEPT ![r] = Append(@, Rewritten(name, m))]
      BY <2>1
    <3> DEFINE m == Merge(store[s], Entries(Person, name, p, store[s]))
               mention == Rewritten(name, m)
    <3>3. /\ store' = [store EXCEPT ![s] = m]
          /\ texts' = [texts EXCEPT ![r] = Append(texts[r], mention)]
      BY <3>2
    <3>4. m \in Mappings /\ store' \in [Session -> Mappings] /\ Grows
      BY <3>1, <3>3, NewNameFacts
    <3>5. mention \in Mention
      BY <3>4, <1>3, RewrittenIsMention
    <3> HIDE DEF mention, m
    <3>6. Len(texts'[r]) \in Nat
      BY <3>3, <3>5, <1>2, TextFacts
    <3>7. aware' = [aware EXCEPT ![r].found = aware[r].found \cup {Len(texts'[r])}]
      BY <2>1, <1>2
    <3>8. /\ aware' \in [Request -> [keys : SUBSET Name, found : SUBSET Nat]]
          /\ \A q \in Request : q # r => aware'[q] = aware[q]
      BY <3>6, <3>7, <1>2
    <3> QED BY <3>3, <3>4, <3>5, <3>8
  <2>2. CASE /\ texts' = [texts EXCEPT ![r] = Append(@, Rewritten(name, store[s]))]
             /\ UNCHANGED <<store, aware>>
    <3>1. Rewritten(name, store[s]) \in Mention
      BY <1>2, <1>3, RewrittenIsMention
    <3> HIDE DEF name, s
    <3> QED BY <2>2, <3>1, <1>2 DEF Grows
  <2> QED BY <2>1, <2>2 DEF RewriteText
<1>5. texts' \in [Request -> Seq(Mention)] /\ \A q \in Request : q # r => texts'[q] = texts[q]
  BY <1>4, TextFacts
<1>6. ImageTypeOK'
  BY <1>1, <1>4 DEF ImageInv, ImageTypeOK
<1>7. TypeOK'
  BY <1>1, <1>4, <1>5, <1>6 DEF TypeOK
<1>8. ASSUME NEW q \in Request PROVE InList(q)' /\ Covered(q)' /\ Shared(q)'
  BY <1>1, <1>4, LeftAlone
<1>9. ImageInv'
  BY <1>6, <1>8 DEF ImageInv
<1> QED BY <1>1, <1>4, <1>5, <1>7, <1>9 DEF Steady, Alone

\* The gateway forwards what the reply lets it.
LEMMA ForwardSteady == ASSUME TypeOK, ImageInv, NEW r \in Request, Forward(r) PROVE Steady(r)
<1>1. /\ ImageInv' /\ ImageTypeOK' /\ Grows /\ piiAction' = piiAction
      /\ To(r, "model") /\ pc[r] = "replied"
      /\ sentTexts' = [sentTexts EXCEPT ![r] = Substitute(reply[r].texts, TextsOf[r])]
      /\ sentImages' = [sentImages EXCEPT ![r] = Substitute(reply[r].images, Originals(r))]
      /\ UNCHANGED <<texts, reply, answer, got, aware, lapsed>>
  BY ImagesAlone DEF Forward
<1>2. pc' \in [Request -> Phases] /\ \A q \in Request : q # r => pc'[q] = pc[q]
  BY <1>1, ToFacts DEF Phases
<1>3. /\ sentTexts \in [Request -> Seq(Mention)] /\ sentImages \in [Request -> Seq(Output)]
      /\ reply[r] \in Reply
  BY CallTypes
<1>4. reply[r].texts \in Seq(Mention) /\ reply[r].images \in Seq(Output)
  BY <1>3, ReplyFields, Zenon
<1>5. /\ Substitute(reply[r].texts, TextsOf[r]) \in Seq(Mention)
      /\ Substitute(reply[r].images, Originals(r)) \in Seq(Output)
  BY <1>4, SequencesOfCall DEF Substitute
<1>6. /\ sentTexts' \in [Request -> Seq(Mention)] /\ sentImages' \in [Request -> Seq(Output)]
      /\ \A q \in Request : q # r => sentTexts'[q] = sentTexts[q] /\ sentImages'[q] = sentImages[q]
  BY <1>1, <1>3, <1>5
<1>7. TypeOK'
  BY <1>1, <1>2, <1>6 DEF TypeOK, Phases
<1> QED BY <1>1, <1>2, <1>6, <1>7 DEF Steady, Alone

\* The model answers with choices that repeat what it was sent.
LEMMA ModelAnswersSteady ==
  ASSUME TypeOK, ImageInv, NEW r \in Request, ModelAnswers(r)
  PROVE  Steady(r)
<1>1. /\ ImageInv' /\ ImageTypeOK' /\ Grows /\ piiAction' = piiAction
      /\ To(r, "answered")
      /\ answer' = [answer EXCEPT ![r] = sentTexts[r]]
      /\ texts' = [texts EXCEPT ![r] = << >>]
      /\ UNCHANGED <<reply, sentTexts, sentImages, got, aware, lapsed>>
  BY ImagesAlone DEF ModelAnswers
<1>2. pc' \in [Request -> Phases] /\ \A q \in Request : q # r => pc'[q] = pc[q]
  BY <1>1, ToFacts DEF Phases
<1>3. /\ texts \in [Request -> Seq(Mention)] /\ answer \in [Request -> Seq(Mention)]
      /\ sentTexts[r] \in Seq(Mention) /\ << >> \in Seq(Mention)
  BY CallTypes
<1>4. /\ texts' \in [Request -> Seq(Mention)] /\ answer' \in [Request -> Seq(Mention)]
      /\ \A q \in Request : q # r => texts'[q] = texts[q] /\ answer'[q] = answer[q]
  BY <1>1, <1>3
<1>5. TypeOK'
  BY <1>1, <1>2, <1>4 DEF TypeOK, Phases
<1> QED BY <1>1, <1>2, <1>4, <1>5 DEF Steady, Alone

\* A refused response is answered with one of the refusals (ServeHTTP).
LEMMA RefuseBackSteady ==
  ASSUME TypeOK, ImageInv, NEW r \in Request, RefuseBack(r)
  PROVE  Steady(r)
<1>1. PICK quirk \in PostQuirk \ {"none"} : ReplyWith(r, "back", Refusal(quirk))
  BY DEF RefuseBack
<1>2. Refusal(quirk) \in Reply /\ "back" \in Phases
  BY CallAssumption, RefusalIsReply DEF Phases
<1>3. lapsed' \in [Request -> BOOLEAN] /\ UNCHANGED <<imageVars, lapsed>>
  BY CallTypes DEF RefuseBack
<1> QED BY <1>1, <1>2, <1>3, ReplySteady DEF RefuseBack

\* One more text of the answer is restored.
LEMMA ReverseTextSteady ==
  ASSUME TypeOK, ImageInv, NEW r \in Request, ReverseText(r)
  PROVE  /\ Steady(r)
         /\ \E name \in Mention : texts' = [texts EXCEPT ![r] = Append(texts[r], name)]
<1> DEFINE said == answer[r][Len(texts[r]) + 1]
           reals == IF said = NoName THEN {} ELSE Inverse(store[BackSession(r)], said)
<1>1. /\ InAnswer(r) /\ ImageInv' /\ ImageTypeOK' /\ Grows /\ piiAction' = piiAction
      /\ UNCHANGED <<pc, reply, sentTexts, sentImages, answer, got, aware, lapsed>>
      /\ \E name \in IF reals = {} THEN {said} ELSE reals :
           texts' = [texts EXCEPT ![r] = Append(@, name)]
  BY ImagesAlone DEF ReverseText
<1>2. said \in Mention
  <2>1. answer[r] \in Seq(Mention) /\ texts[r] \in Seq(Mention)
    BY CallTypes
  <2>2. Len(texts[r]) + 1 \in 1..Len(answer[r])
    BY <2>1, <1>1 DEF InAnswer
  <2> QED BY <2>1, <2>2
<1>3. reals \subseteq Name
  BY DEF Inverse, Keys
<1> HIDE DEF said, reals
<1>4. PICK name \in IF reals = {} THEN {said} ELSE reals :
        texts' = [texts EXCEPT ![r] = Append(texts[r], name)]
  BY <1>1, CallTypes
<1>5. name \in Mention
  BY <1>2, <1>3 DEF Mention
<1>6. texts' \in [Request -> Seq(Mention)] /\ \A q \in Request : q # r => texts'[q] = texts[q]
  BY <1>4, <1>5, TextFacts
<1>7. TypeOK'
  BY <1>1, <1>6 DEF TypeOK
<1> QED BY <1>1, <1>4, <1>5, <1>6, <1>7 DEF Steady, Alone

\* A choice that cannot be restored ends the response with NONE
\* (handleResponse).
LEMMA ReverseUnavailableSteady ==
  ASSUME TypeOK, ImageInv, NEW r \in Request, ReverseUnavailable(r)
  PROVE  Steady(r)
<1>1. Answer("NONE", << >>, << >>) \in Reply /\ "back" \in Phases
  BY DEF Answer, Reply, Phases
<1>2. lapsed' \in [Request -> BOOLEAN] /\ \A q \in Request : q # r => lapsed'[q] = lapsed[q]
  BY CallTypes DEF ReverseUnavailable
<1> QED BY <1>1, <1>2, ReplySteady DEF ReverseUnavailable

\* The reply to a post-call request has all its texts, or none.
LEMMA RestoredFacts ==
  ASSUME TypeOK, NEW r \in Request, RespondBack(r)
  PROVE  \E response \in Reply :
           /\ ReplyWith(r, "back", response)
           /\ response.status = 200 /\ response.action # "BLOCKED"
           /\ Len(response.texts) \in {0, Len(answer[r])}
<1>1. texts[r] \in Seq(Mention) /\ Len(texts[r]) = Len(answer[r])
  BY CallTypes DEF RespondBack
<1>2. CASE Differs(texts[r], answer[r])
  <2> DEFINE response == Answer("GUARDRAIL_INTERVENED", texts[r], << >>)
  <2>1. ReplyWith(r, "back", response)
    BY <1>2 DEF RespondBack
  <2>2. response \in Reply /\ response.status = 200
        /\ response.action = "GUARDRAIL_INTERVENED" /\ response.texts = texts[r]
    BY <1>1 DEF Answer, Reply
  <2> HIDE DEF response
  <2> QED BY <2>1, <2>2, <1>1
<1>3. CASE ~ Differs(texts[r], answer[r])
  <2> DEFINE response == Answer("NONE", << >>, << >>)
  <2>1. ReplyWith(r, "back", response)
    BY <1>3 DEF RespondBack
  <2>2. response \in Reply /\ response.status = 200
        /\ response.action = "NONE" /\ Len(response.texts) = 0
    BY DEF Answer, Reply
  <2> HIDE DEF response
  <2> QED BY <2>1, <2>2
<1> QED BY <1>2, <1>3

\* A finished response carries its choices (handleResponse).
LEMMA RespondBackSteady ==
  ASSUME TypeOK, ImageInv, NEW r \in Request, RespondBack(r)
  PROVE  Steady(r)
<1>1. PICK response \in Reply : ReplyWith(r, "back", response)
  BY RestoredFacts
<1>2. lapsed' \in [Request -> BOOLEAN] /\ UNCHANGED <<imageVars, lapsed>> /\ "back" \in Phases
  BY CallTypes DEF RespondBack, Phases
<1> QED BY <1>1, <1>2, ReplySteady DEF RespondBack

\* The client is sent the choices of the reply, or the ones there were.
LEMMA DeliverSteady == ASSUME TypeOK, ImageInv, NEW r \in Request, Deliver(r) PROVE Steady(r)
<1> DEFINE delivered == IF reply[r].status = 200 /\ reply[r].action # "BLOCKED"
                        THEN Substitute(reply[r].texts, answer[r]) ELSE << >>
<1>1. /\ ImageInv' /\ ImageTypeOK' /\ Grows /\ piiAction' = piiAction
      /\ To(r, "over") /\ got' = [got EXCEPT ![r] = delivered]
      /\ UNCHANGED <<texts, reply, sentTexts, sentImages, answer, aware, lapsed>>
  BY ImagesAlone DEF Deliver
<1>2. pc' \in [Request -> Phases] /\ \A q \in Request : q # r => pc'[q] = pc[q]
  BY <1>1, ToFacts DEF Phases
<1>3. /\ got \in [Request -> Seq(Mention)] /\ answer[r] \in Seq(Mention)
      /\ reply[r].texts \in Seq(Mention) /\ << >> \in Seq(Mention)
  <2>1. /\ got \in [Request -> Seq(Mention)] /\ answer \in [Request -> Seq(Mention)]
        /\ reply[r] \in Reply
    BY CallTypes
  <2>2. reply[r].texts \in Seq(Mention)
    BY <2>1, ReplyFields, Zenon
  <2>3. answer[r] \in Seq(Mention) /\ << >> \in Seq(Mention)
    BY <2>1
  <2> QED BY <2>1, <2>2, <2>3
<1>4. delivered \in Seq(Mention)
  BY <1>3 DEF Substitute
<1> HIDE DEF delivered
<1>5. got' \in [Request -> Seq(Mention)] /\ \A q \in Request : q # r => got'[q] = got[q]
  BY <1>1, <1>3, <1>4
<1>6. TypeOK'
  BY <1>1, <1>2, <1>5 DEF TypeOK, Phases
<1> QED BY <1>1, <1>2, <1>5, <1>6 DEF Steady, Alone

-----------------------------------------------------------------------------
\* A step of a call keeps the types and the image pass's invariant, loses no
\* entry of the store and leaves the other calls alone.
LEMMA CallSteady ==
  ASSUME TypeOK, ImageInv, NEW r \in Request, HandlerStep(r)
  PROVE  Steady(r)
<1>1. ASSUME TextsDone(r) \/ AcceptBack(r) \/ GiveUp(r) PROVE Steady(r)
  <2>1. \E label \in Phases : To(r, label)
    BY <1>1 DEF TextsDone, AcceptBack, GiveUp, Phases
  <2> QED BY <1>1, <2>1, MoveSteady DEF TextsDone, AcceptBack, GiveUp
<1> QED BY <1>1, AcceptSteady, RefuseSteady, RewriteTextSteady, TextFailsSteady,
           HandleImagesSteady, RespondSteady, ForwardSteady, ModelAnswersSteady,
           RefuseBackSteady, ReverseTextSteady, ReverseUnavailableSteady,
           RespondBackSteady, DeliverSteady DEF HandlerStep

\* So does losing connections.
LEMMA CutOffFacts ==
  ASSUME TypeOK, ImageInv, NEW requests \in SUBSET Request, CutOff(requests)
  PROVE  /\ TypeOK' /\ ImageInv' /\ Grows /\ piiAction' = piiAction
         /\ \A r \in Request : r \notin requests => pc'[r] = pc[r] /\ reply'[r] = reply[r]
         /\ \A r \in requests :
              /\ reply'[r] = Error(0) /\ reply'[r].status = 0
              /\ pc'[r] = IF pc[r] \in {"answered", "reversing", "back"} THEN "back"
                          ELSE "replied"
<1>1. /\ ImageInv' /\ ImageTypeOK' /\ Grows /\ piiAction' = piiAction
      /\ UNCHANGED <<texts, sentTexts, sentImages, answer, got, aware, lapsed>>
  BY ImagesAlone DEF CutOff
<1>2. Error(0) \in Reply /\ Error(0).status = 0
  BY DEF Error, Reply
<1>3. /\ \A r \in Request : r \notin requests => pc'[r] = pc[r] /\ reply'[r] = reply[r]
      /\ \A r \in requests :
           /\ reply'[r] = Error(0)
           /\ pc'[r] = IF pc[r] \in {"answered", "reversing", "back"} THEN "back" ELSE "replied"
  BY DEF CutOff
<1>4. reply' \in [Request -> Reply] /\ pc' \in [Request -> Phases]
  BY <1>2, CallTypes DEF CutOff, Phases
<1>5. TypeOK'
  BY <1>1, <1>4 DEF TypeOK, Phases
<1> QED BY <1>1, <1>2, <1>3, <1>5

-----------------------------------------------------------------------------
(* The server's invariant. *)

\* The server starts with nothing in flight.
LEMMA InitServerInv == ServerInit => ServerInv
<1> SUFFICES ASSUME ServerInit PROVE ServerInv
  OBVIOUS
<1>1. ImageInv /\ ImageTypeOK
  BY InitImageInv DEF ServerInit, Init, ImageInv
<1>2. /\ << >> \in Seq(Mention) /\ << >> \in Seq(Output) /\ Error(0) \in Reply
  BY DEF Error, Reply
<1>3. TypeOK
  BY <1>1, <1>2 DEF ServerInit, Init, TypeOK
<1>4. ServerTypeOK
  <2>1. server = "up" /\ stops \in 0..MaxStops
    BY StopAssumption DEF ServerInit
  <2>2. overran \in BOOLEAN
    BY DEF ServerInit
  <2> QED BY <1>3, <2>1, <2>2 DEF ServerTypeOK
<1>5. Graceful
  BY DEF Graceful, ServerInit
<1> QED BY <1>1, <1>4, <1>5 DEF ServerInv

\* Whatever happens, the calls keep their types and the store its entries.
LEMMA CallsKept ==
  ASSUME ServerInv, [ServerNext]_vars
  PROVE  TypeOK' /\ ImageInv' /\ Grows /\ piiAction' = piiAction
<1>1. TypeOK /\ ImageInv
  BY DEF ServerInv, ServerTypeOK
<1>2. ASSUME NEW r \in Request, HandlerStep(r)
      PROVE  TypeOK' /\ ImageInv' /\ Grows /\ piiAction' = piiAction
  BY <1>1, <1>2, CallSteady DEF Steady
<1>3. ASSUME NEW requests \in SUBSET Request, CutOff(requests)
      PROVE  TypeOK' /\ ImageInv' /\ Grows /\ piiAction' = piiAction
  BY <1>1, <1>3, CutOffFacts
<1>4. CASE UNCHANGED handlerVars
  <2>1. UNCHANGED <<imageVars, callVars>>
    BY <1>4 DEF handlerVars
  <2>2. ImageInv' /\ ImageTypeOK' /\ Grows /\ piiAction' = piiAction
    BY <1>1, <2>1, ImagesAlone
  <2> QED BY <1>1, <2>1, <2>2 DEF callVars, TypeOK
<1> QED BY <1>2, <1>3, <1>4, StepKinds

\* The process is in one of its phases, and stops at most MaxStops times.
LEMMA ProcessTypes ==
  ASSUME ServerInv, [ServerNext]_vars
  PROVE  server' \in {"up", "draining", "closed", "down"} /\ stops' \in 0..MaxStops
           /\ overran' \in BOOLEAN
<1>1. /\ server \in {"up", "draining", "closed", "down"} /\ stops \in 0..MaxStops
      /\ overran \in BOOLEAN /\ MaxStops \in Nat
  BY StopAssumption DEF ServerInv, ServerTypeOK
<1>2. ASSUME NEW r \in Request, Call(r) PROVE UNCHANGED serverVars
  BY <1>2 DEF Call, Serve, Unreachable, WriteTimesOut
<1>3. CASE Process
  <2>1. server' \in {"up", "draining", "closed", "down"}
    BY <1>3 DEF Process, Signal, Drained, DrainTimesOut, Exit, Crash, Boot
  <2>2. stops' = stops \/ (stops < MaxStops /\ stops' = stops + 1)
    BY <1>3 DEF Process, Signal, Drained, DrainTimesOut, Exit, Crash, Boot
  <2>3. overran' = overran \/ overran' \in {TRUE, FALSE}
    BY <1>3 DEF Process, Signal, Drained, DrainTimesOut, Exit, Crash, Boot
  <2>4. stops' \in 0..MaxStops
    BY <1>1, <2>2
  <2>5. overran' \in BOOLEAN
    BY <1>1, <2>3
  <2> QED BY <2>1, <2>4, <2>5
<1>4. CASE UNCHANGED serverVars
  BY <1>1, <1>4 DEF serverVars
<1> QED BY <1>2, <1>3, <1>4 DEF ServerNext, AllOver, vars

\* The steps the gateway takes leave a request that is not in flight.
LEMMA GatewayLeaves ==
  ASSUME TypeOK, NEW r \in Request, Gateway(r)
  PROVE  /\ ~ InFlight(r)' /\ \A q \in Request : q # r => pc'[q] = pc[q]
<1>1. To(r, "model") \/ To(r, "over") \/ To(r, "answered")
  BY DEF Gateway, Forward, GiveUp, ModelAnswers, Deliver
<1> QED BY <1>1, ToFacts DEF Phases, InFlight

\* With the store closed after a drain in time, nothing gets in flight again.
LEMMA NextGraceful == ASSUME ServerInv, [ServerNext]_vars PROVE Graceful'
<1>1. TypeOK /\ ImageInv /\ Graceful
  BY DEF ServerInv, ServerTypeOK
<1> SUFFICES ASSUME server' = "closed", ~ overran', NEW q \in Request PROVE ~ InFlight(q)'
  BY DEF Graceful
<1>2. ASSUME NEW r \in Request, Serve(r) PROVE ~ InFlight(q)'
  <2>1. server = "closed" /\ ~ overran
    BY <1>2 DEF Serve, serverVars
  <2>2. ~ InFlight(r) /\ (FailsWithoutStore(r) \/ Work(r))
    BY <1>1, <1>2, <2>1 DEF Serve, Graceful
  <2> QED BY <2>2 DEF FailsWithoutStore, Work, InFlight, InTexts, InAnswer, TextFails,
       ReverseUnavailable, RewriteText, TextsDone, HandleImages, Respond, ReverseText, RespondBack
<1>3. ASSUME NEW r \in Request, Gateway(r), UNCHANGED serverVars PROVE ~ InFlight(q)'
  <2>1. ~ InFlight(q)
    BY <1>1, <1>3 DEF Graceful, serverVars
  <2> QED BY <1>1, <1>3, <2>1, GatewayLeaves DEF InFlight
<1>4. ASSUME NEW requests \in SUBSET Request, CutOff(requests), server = "closed", ~ overran
      PROVE  ~ InFlight(q)'
  <2>1. ~ InFlight(q)
    BY <1>1, <1>4 DEF Graceful
  <2> QED BY <1>1, <1>4, <2>1, CutOffFacts DEF InFlight
<1>5. ASSUME NEW r \in Request, Unreachable(r) \/ WriteTimesOut(r) PROVE ~ InFlight(q)'
  <2>1. CutOff({r}) /\ UNCHANGED serverVars
    BY <1>5 DEF Unreachable, WriteTimesOut
  <2> QED BY <1>4, <2>1 DEF serverVars
<1>6. CASE Process
  <2>1. Drained
    BY <1>6, <1>1 DEF Process, Signal, DrainTimesOut, Exit, Crash, Boot
  <2> QED BY <2>1 DEF Drained, handlerVars, callVars, InFlight
<1>7. CASE UNCHANGED vars
  BY <1>1, <1>7 DEF vars, handlerVars, callVars, serverVars, Graceful, InFlight
<1> QED BY <1>2, <1>3, <1>5, <1>6, <1>7 DEF ServerNext, Call, AllOver

\* Every step of the requests, the process and the gateway keeps the types.
LEMMA NextServerInv == ServerInv /\ [ServerNext]_vars => ServerInv'
<1> SUFFICES ASSUME ServerInv, [ServerNext]_vars PROVE ServerInv'
  OBVIOUS
<1> QED BY CallsKept, ProcessTypes, NextGraceful DEF ServerInv, ServerTypeOK

\* The typed invariant holds under any stops, crashes and restarts.
LEMMA ServerInvariance == ServerSpec => []ServerInv
<1> QED BY InitServerInv, NextServerInv, PTL DEF ServerSpec

\* Every reply has a status and an action the handler writes, whatever fails and
\* whenever the process stops.
THEOREM ServerTyped == ServerSpec => []ServerTypeOK
<1>1. ServerInv => ServerTypeOK
  BY DEF ServerInv
<1> QED BY <1>1, ServerInvariance, PTL

\* A stop within its timeout changes no request that was in flight: there is
\* none left when the store is closed.
THEOREM DrainLosesNothing == ServerSpec => StopsGracefully
<1>1. ServerInv => \A r \in Request : ~ (server = "closed" /\ ~overran /\ InFlight(r))
  BY DEF ServerInv, Graceful
<1>2. ServerInv /\ [ServerNext]_vars =>
        [\A r \in Request :
           server = "closed" /\ ~overran /\ InFlight(r) => UNCHANGED <<pc[r], reply[r]>>]_vars
  BY <1>1
<1> QED BY <1>2, ServerInvariance, PTL DEF ServerSpec, StopsGracefully

-----------------------------------------------------------------------------
(* The answer of the model reaches the client in full. *)

\* Nothing is answered or delivered before the model has answered, and a reply
\* to a post-call request is an error that is excused or a whole answer.
Kept(r) ==
  /\ pc[r] \in {"new", "texts", "images", "replied", "model"} => answer[r] = << >>
  /\ pc[r] # "over" => got[r] = << >>
  /\ pc[r] = "back" /\ reply[r].status \notin {0, 400, 401, 413} =>
       /\ reply[r].status = 200 /\ reply[r].action # "BLOCKED"
       /\ Len(reply[r].texts) \in {0, Len(answer[r])}
  /\ pc[r] = "over" /\ reply[r].status \notin {0, 400, 401, 413} =>
       Len(got[r]) = Len(answer[r])

KeptInv == ServerInv /\ \A r \in Request : Kept(r)

\* The gateway sends no documents back with an answer: a call with documents is
\* blocked before there is one.
NoDocumentsBack == "documents" \notin PostQuirk

\* A call that is left alone keeps its part.
LEMMA KeptAlone ==
  ASSUME NEW q \in Request, Kept(q), pc'[q] = pc[q], reply'[q] = reply[q],
         answer'[q] = answer[q], got'[q] = got[q]
  PROVE  Kept(q)'
<1> QED BY DEF Kept

\* A step that keeps the answer and what was delivered, and is no reply to a
\* post-call request.
LEMMA KeptBefore ==
  ASSUME NEW r \in Request, Kept(r), answer'[r] = answer[r], got'[r] = got[r],
         pc[r] \in {"new", "texts", "images", "replied", "model"} \/
           pc'[r] \in {"answered", "reversing"},
         pc[r] # "over", pc'[r] \notin {"back", "over"}
  PROVE  Kept(r)'
<1> QED BY DEF Kept

\* A reply to a post-call request.
LEMMA KeptBack ==
  ASSUME NEW r \in Request, Kept(r), answer'[r] = answer[r], got'[r] = got[r],
         pc[r] # "over", pc'[r] = "back",
         \/ reply'[r].status \in {0, 400, 401, 413}
         \/ /\ reply'[r].status = 200 /\ reply'[r].action # "BLOCKED"
            /\ Len(reply'[r].texts) \in {0, Len(answer[r])}
  PROVE  Kept(r)'
<1> QED BY DEF Kept

\* A response without documents that is refused keeps its answer.
LEMMA RefuseBackKept ==
  ASSUME NoDocumentsBack, TypeOK, NEW r \in Request, Kept(r), RefuseBack(r)
  PROVE  Kept(r)'
<1>1. PICK quirk \in PostQuirk \ {"none"} : ReplyWith(r, "back", Refusal(quirk))
  BY DEF RefuseBack
<1>2. /\ quirk \in Quirk \ {"none"} /\ quirk # "documents" /\ "back" \in Phases
  BY CallAssumption DEF NoDocumentsBack, Phases
<1>3. Refusal(quirk) \in Reply /\ Refusal(quirk).status \in {400, 401, 413}
  BY <1>2, RefusalIsReply
<1>4. reply'[r] = Refusal(quirk) /\ pc'[r] = "back"
  BY <1>1, <1>2, <1>3, ReplyFacts
<1>5. pc[r] = "answered" /\ answer' = answer /\ got' = got
  BY DEF RefuseBack
<1> QED BY <1>3, <1>4, <1>5, KeptBack

\* A response whose store is away keeps its answer.
LEMMA ReverseUnavailableKept ==
  ASSUME TypeOK, NEW r \in Request, Kept(r), ReverseUnavailable(r)
  PROVE  Kept(r)'
<1> DEFINE response == Answer("NONE", << >>, << >>)
<1>1. /\ response \in Reply /\ response.status = 200 /\ response.action = "NONE"
      /\ Len(response.texts) = 0 /\ "back" \in Phases
  BY DEF Answer, Reply, Phases
<1>2. ReplyWith(r, "back", response) /\ pc[r] = "reversing" /\ answer' = answer /\ got' = got
  BY DEF ReverseUnavailable, InAnswer
<1> HIDE DEF response
<1>3. reply'[r] = response /\ pc'[r] = "back"
  BY <1>1, <1>2, ReplyFacts
<1> QED BY <1>1, <1>2, <1>3, KeptBack

\* What a finished response carries is as long as the answer.
LEMMA RespondBackKept ==
  ASSUME TypeOK, NEW r \in Request, Kept(r), RespondBack(r)
  PROVE  Kept(r)'
<1>1. PICK response \in Reply :
           /\ ReplyWith(r, "back", response)
           /\ response.status = 200 /\ response.action # "BLOCKED"
           /\ Len(response.texts) \in {0, Len(answer[r])}
  BY RestoredFacts
<1>2. pc[r] = "reversing" /\ answer' = answer /\ got' = got /\ "back" \in Phases
  BY DEF RespondBack, Phases
<1>3. reply'[r] = response /\ pc'[r] = "back"
  BY <1>1, <1>2, ReplyFacts
<1> QED BY <1>1, <1>2, <1>3, KeptBack

\* The gateway keeps the answer where the reply has no texts.
LEMMA DeliverKept == ASSUME TypeOK, NEW r \in Request, Kept(r), Deliver(r) PROVE Kept(r)'
<1>1. /\ pc[r] = "back" /\ To(r, "over") /\ answer' = answer /\ reply' = reply
      /\ got' = [got EXCEPT ![r] =
                   IF reply[r].status = 200 /\ reply[r].action # "BLOCKED"
                   THEN Substitute(reply[r].texts, answer[r]) ELSE << >>]
  BY DEF Deliver
<1>2. pc'[r] = "over"
  BY <1>1, ToFacts DEF Phases
<1>3. got \in [Request -> Seq(Mention)] /\ reply[r] \in Reply
  BY CallTypes
<1>4. reply[r].texts \in Seq(Mention)
  BY <1>3, ReplyFields, Zenon
<1>5. ASSUME reply[r].status \notin {0, 400, 401, 413} PROVE Len(got'[r]) = Len(answer[r])
  <2>1. /\ reply[r].status = 200 /\ reply[r].action # "BLOCKED"
        /\ Len(reply[r].texts) \in {0, Len(answer[r])}
    BY <1>1, <1>5 DEF Kept
  <2>2. got'[r] = Substitute(reply[r].texts, answer[r])
    BY <1>1, <1>3, <2>1
  <2>3. CASE reply[r].texts = << >>
    BY <2>2, <2>3 DEF Substitute
  <2>4. CASE reply[r].texts # << >>
    <3>1. Len(reply[r].texts) # 0
      BY <1>4, <2>4
    <3> QED BY <2>1, <2>2, <2>4, <3>1 DEF Substitute
  <2> QED BY <2>3, <2>4
<1> QED BY <1>1, <1>2, <1>5 DEF Kept

\* A call that is given up had no answer.
LEMMA GiveUpKept == ASSUME TypeOK, NEW r \in Request, Kept(r), GiveUp(r) PROVE Kept(r)'
<1>1. pc[r] = "replied" /\ To(r, "over") /\ answer' = answer /\ got' = got
  BY DEF GiveUp
<1>2. pc'[r] = "over"
  BY <1>1, ToFacts DEF Phases
<1>3. answer[r] = << >> /\ got[r] = << >>
  BY <1>1 DEF Kept
<1> QED BY <1>1, <1>2, <1>3 DEF Kept

\* The steps up to the model's answer and the beginning of the post-call.
LEMMA OthersKept ==
  ASSUME TypeOK, ImageInv, NEW r \in Request, Kept(r),
         \/ Accept(r) \/ Refuse(r) \/ RewriteText(r) \/ TextFails(r) \/ TextsDone(r)
         \/ HandleImages(r) \/ Respond(r) \/ Forward(r) \/ ModelAnswers(r)
         \/ AcceptBack(r) \/ ReverseText(r)
  PROVE  Kept(r)'
<1>1. ASSUME NEW label \in Phases, pc' = [pc EXCEPT ![r] = label] PROVE pc'[r] = label
  BY <1>1, CallTypes
<1>2. CASE Refuse(r) \/ TextFails(r) \/ Respond(r)
  <2>1. /\ pc[r] \in {"new", "texts", "images"} /\ pc' = [pc EXCEPT ![r] = "replied"]
        /\ answer' = answer /\ got' = got
    BY <1>2 DEF Refuse, TextFails, InTexts, Respond, ReplyWith, To
  <2>2. pc'[r] = "replied"
    BY <1>1, <2>1 DEF Phases
  <2> QED BY <2>1, <2>2, KeptBefore
<1>3. CASE RewriteText(r) \/ HandleImages(r) \/ ReverseText(r)
  <2>1. pc[r] \in {"texts", "images", "reversing"} /\ pc' = pc /\ answer' = answer /\ got' = got
    BY <1>3 DEF RewriteText, InTexts, HandleImages, callVars, ReverseText, InAnswer
  <2> QED BY <2>1, KeptBefore
<1>4. CASE Accept(r)
  <2>1. pc'[r] = "texts" /\ pc[r] = "new" /\ answer' = answer /\ got' = got
    BY <1>1, <1>4 DEF Accept, To, Phases
  <2> QED BY <2>1, KeptBefore
<1>5. CASE TextsDone(r)
  <2>1. pc'[r] = "images" /\ pc[r] = "texts" /\ answer' = answer /\ got' = got
    BY <1>1, <1>5 DEF TextsDone, To, Phases
  <2> QED BY <2>1, KeptBefore
<1>6. CASE Forward(r)
  <2>1. pc'[r] = "model" /\ pc[r] = "replied" /\ answer' = answer /\ got' = got
    BY <1>1, <1>6 DEF Forward, To, Phases
  <2> QED BY <2>1, KeptBefore
<1>7. CASE AcceptBack(r)
  <2>1. pc'[r] = "reversing" /\ pc[r] = "answered" /\ answer' = answer /\ got' = got
    BY <1>1, <1>7 DEF AcceptBack, To, Phases
  <2> QED BY <2>1, KeptBefore
<1>8. CASE ModelAnswers(r)
  <2>1. pc'[r] = "answered" /\ pc[r] = "model" /\ got' = got
    BY <1>1, <1>8 DEF ModelAnswers, To, Phases
  <2> QED BY <2>1 DEF Kept
<1> QED BY <1>2, <1>3, <1>4, <1>5, <1>6, <1>7, <1>8

\* A connection that is lost has no reply to excuse; no answer is lost with it
\* that was delivered.
LEMMA CutOffKept ==
  ASSUME TypeOK, ImageInv, NEW requests \in SUBSET Request, CutOff(requests), Open(requests),
         NEW r \in Request, Kept(r)
  PROVE  Kept(r)'
<1>1. answer' = answer /\ got' = got
  BY DEF CutOff
<1>2. CASE r \notin requests
  BY <1>1, <1>2, CutOffFacts, KeptAlone
<1>3. CASE r \in requests
  <2>1. /\ reply'[r].status = 0 /\ pc[r] \notin {"model", "over"} /\ pc[r] \in Phases
        /\ pc'[r] = IF pc[r] \in {"answered", "reversing", "back"} THEN "back" ELSE "replied"
    BY <1>3, CutOffFacts, CallTypes DEF Open
  <2>2. CASE pc[r] \in {"answered", "reversing", "back"}
    BY <1>1, <2>1, <2>2, KeptBack
  <2>3. CASE pc[r] \notin {"answered", "reversing", "back"}
    BY <1>1, <2>1, <2>3, KeptBefore DEF Phases
  <2> QED BY <2>2, <2>3
<1> QED BY <1>2, <1>3

\* Every step keeps the answers that are on their way back.
LEMMA NextKept ==
  ASSUME NoDocumentsBack
  PROVE  KeptInv /\ [ServerNext]_vars => KeptInv'
<1> SUFFICES ASSUME KeptInv, [ServerNext]_vars PROVE KeptInv'
  OBVIOUS
<1>1. ServerInv /\ TypeOK /\ ImageInv /\ \A q \in Request : Kept(q)
  BY DEF KeptInv, ServerInv, ServerTypeOK
<1>2. ServerInv'
  BY <1>1, NextServerInv
<1>3. ASSUME NEW r \in Request, HandlerStep(r), NEW q \in Request PROVE Kept(q)'
  <2>1. CASE q = r
    BY <1>1, <1>3, <2>1, RefuseBackKept, ReverseUnavailableKept, RespondBackKept, DeliverKept,
       GiveUpKept, OthersKept DEF HandlerStep
  <2>2. CASE q # r
    <3>1. Alone(r)
      BY <1>1, <1>3, CallSteady DEF Steady
    <3> QED BY <1>1, <2>2, <3>1, KeptAlone DEF Alone
  <2> QED BY <2>1, <2>2
<1>4. ASSUME NEW requests \in SUBSET Request, CutOff(requests), Open(requests), NEW q \in Request
      PROVE  Kept(q)'
  BY <1>1, <1>4, CutOffKept
<1>5. ASSUME UNCHANGED handlerVars, NEW q \in Request PROVE Kept(q)'
  BY <1>1, <1>5, KeptAlone DEF handlerVars, callVars
<1>6. \A q \in Request : Kept(q)'
  BY <1>1, <1>3, <1>4, <1>5, StepKinds
<1> QED BY <1>2, <1>6 DEF KeptInv

\* Whatever the store does while an answer is restored, the client gets a text
\* for each text of the answer, unless the request was refused or cut off.
THEOREM AnswersDelivered ==
  ASSUME NoDocumentsBack
  PROVE  ServerSpec => []AnswerKept
<1>1. ServerInit => KeptInv
  <2> SUFFICES ASSUME ServerInit PROVE KeptInv
    OBVIOUS
  <2>1. ServerInv
    BY InitServerInv
  <2>2. \A r \in Request : Kept(r)
    BY DEF ServerInit, Init, Kept
  <2> QED BY <2>1, <2>2 DEF KeptInv
<1>2. KeptInv => AnswerKept
  BY DEF KeptInv, Kept, AnswerKept
<1> QED BY <1>1, <1>2, NextKept, PTL DEF ServerSpec

-----------------------------------------------------------------------------
(* The model is sent nothing in clear. *)

\* What a call must not be sent in clear: a name detected in its text, or one
\* that had a key when the call came in.
Secret(r, i) ==
  \/ i \in aware[r].found
  \/ /\ TextsOf[r][i] # NoName
     /\ \E k \in aware[r].keys : Fold[k] = Fold[TextsOf[r][i]]

TextsProtected(r, list) == \A i \in DOMAIN list : Secret(r, i) => list[i] # TextsOf[r][i]

ImagesShown(r, list) ==
  piiAction # "passthrough" =>
    \A i \in DOMAIN list : list[i].image \in Personal => list[i].form = "redacted"

Protected(r) ==
  /\ aware[r].keys \subseteq Keys(store[SessionOf[r]])
  /\ pc[r] = "new" => texts[r] = << >> /\ aware[r].found = {}
  /\ pc[r] \in {"texts", "images"} =>
       /\ aware[r].found \subseteq 1..Len(texts[r])
       /\ Len(texts[r]) <= Len(TextsOf[r])
       /\ TextsProtected(r, texts[r])
  /\ pc[r] = "images" => Len(texts[r]) = Len(TextsOf[r])
  /\ pc[r] = "replied" /\ reply[r].status = 200 /\ reply[r].action # "BLOCKED" =>
       /\ TextsProtected(r, Substitute(reply[r].texts, TextsOf[r]))
       /\ ImagesShown(r, Substitute(reply[r].images, Originals(r)))
  /\ pc[r] = "model" => TextsProtected(r, sentTexts[r]) /\ ImagesShown(r, sentImages[r])

\* What shareWithMapping handles was read in an image; neither its working copy
\* nor its new entries map a string to itself.
Apart(r) ==
  /\ NoSelf(scratch[r]) /\ NoSelf(fresh[r])
  /\ \A d \in todo[r] : \E i \in Image : d \in Read[i]

ProtectedInv ==
  /\ ServerInv
  /\ \A s \in Session : NoSelf(store[s])
  /\ \A r \in Request : Apart(r) /\ Protected(r)

\* No image shows a name that is also a pseudonym of its type: the image pass
\* reserves nothing, and would map such a name to itself.
ReadNamesDiffer ==
  \A i \in Image : \A d \in Read[i] : \A p \in PseudonymsOf(d.kind) : Fold[p] # Fold[d.name]

-----------------------------------------------------------------------------
(* No string is mapped to itself. *)

\* A step that only changes a request's stage, list, or what it was read.
LEMMA ApartAlone ==
  ASSUME NEW q \in Request, Apart(q), scratch'[q] = scratch[q], fresh'[q] = fresh[q],
         todo'[q] \subseteq todo[q]
  PROVE  Apart(q)'
<1> QED BY DEF Apart

\* One round of shareWithMapping.
LEMMA ShareNextApart ==
  ASSUME ReadNamesDiffer, ImageInv, NEW r \in Request, Apart(r), ShareNext(r)
  PROVE  Apart(r)'
<1>1. PICK d \in todo[r] :
        /\ todo' = [todo EXCEPT ![r] = @ \ {d}]
        /\ \/ UNCHANGED <<scratch, fresh>>
           \/ \E p \in Assign(d.kind, d.name, scratch[r], {}) :
                LET new == WithParts(d.name, p, Parts(d.kind, d.name, p, scratch[r]))
                IN  /\ scratch' = [scratch EXCEPT ![r] = Merge(@, new)]
                    /\ fresh' = [fresh EXCEPT ![r] = Merge(@, new)]
  BY DEF ShareNext
<1>2. /\ scratch \in [Request -> Mappings] /\ fresh \in [Request -> Mappings]
      /\ todo \in [Request -> SUBSET Detection]
  BY DEF ImageInv, ImageTypeOK
<1>3. todo'[r] \subseteq todo[r]
  BY <1>1, <1>2
<1>4. CASE UNCHANGED <<scratch, fresh>>
  BY <1>3, <1>4, ApartAlone
<1>5. ASSUME NEW p \in Assign(d.kind, d.name, scratch[r], {}), NEW new,
             new = WithParts(d.name, p, Parts(d.kind, d.name, p, scratch[r])),
             scratch' = [scratch EXCEPT ![r] = Merge(scratch[r], new)],
             fresh' = [fresh EXCEPT ![r] = Merge(fresh[r], new)]
      PROVE  Apart(r)'
  <2>1. d.name \in Name /\ d.kind \in Kind
    BY <1>2 DEF Detection
  <2>2. PICK i \in Image : d \in Read[i]
    BY DEF Apart
  <2>3. p \in Name /\ Fold[p] # Fold[d.name]
    <3>1. p \in PseudonymsOf(d.kind)
      BY <2>1, AssignFacts
    <3>2. p \in Name
      BY <2>1, AssignIsName
    <3> QED BY <2>2, <3>1, <3>2 DEF ReadNamesDiffer
  <2>4. /\ Parts(d.kind, d.name, p, scratch[r]) \in SUBSET (Name \X Name)
        /\ \A pair \in Parts(d.kind, d.name, p, scratch[r]) : Fold[pair[1]] # Fold[pair[2]]
    BY <2>1, <2>3, PartsAreNames, PartsDiffer
  <2>5. NoSelf(new)
    BY <1>5, <2>1, <2>3, <2>4, WithPartsNoSelf
  <2>6. NoSelf(Merge(scratch[r], new)) /\ NoSelf(Merge(fresh[r], new))
    BY <2>5, MergeNoSelf DEF Apart
  <2>7. scratch'[r] = Merge(scratch[r], new) /\ fresh'[r] = Merge(fresh[r], new)
    BY <1>2, <1>5
  <2> QED BY <1>3, <2>6, <2>7 DEF Apart
<1> QED BY <1>1, <1>4, <1>5

\* A step of the image pass.
LEMMA ImageStepApart ==
  ASSUME ReadNamesDiffer, ImageInv, \A s \in Session : NoSelf(store[s]),
         \A q \in Request : Apart(q), NEW r \in Request, ImageStep(r)
  PROVE  /\ \A s \in Session : NoSelf(store'[s])
         /\ \A q \in Request : Apart(q)'
<1>1. /\ scratch \in [Request -> Mappings] /\ fresh \in [Request -> Mappings]
      /\ todo \in [Request -> SUBSET Detection]
  BY DEF ImageInv, ImageTypeOK
<1>2. CASE Analyze(r)
  <2>1. UNCHANGED <<store, scratch, fresh>>
    BY <1>2 DEF Analyze
  <2>2. PICK dets \in {{}, Read[Current(r)]} :
          todo' = [todo EXCEPT ![r] = {d \in dets : Entities = {} \/ d.kind \in Entities}]
    BY <1>2 DEF Analyze
  <2>3. Current(r) \in Image
    BY <1>2, CurrentIsImage DEF Analyze, Handling
  <2>4. /\ todo'[r] \subseteq Read[Current(r)]
        /\ \A q \in Request : q # r => todo'[q] = todo[q]
    BY <1>1, <2>2
  <2>5. ASSUME NEW q \in Request PROVE Apart(q)'
    BY <2>1, <2>3, <2>4 DEF Apart
  <2> QED BY <2>1, <2>5
<1>3. CASE LoadMapping(r)
  <2>1. /\ store' = store /\ todo' = todo
        /\ scratch' = [scratch EXCEPT ![r] = store[SessionOf[r]]]
        /\ fresh' = [fresh EXCEPT ![r] = Empty]
    BY <1>3 DEF LoadMapping
  <2>2. SessionOf[r] \in Session
    BY RequestAssumption
  <2>3. /\ scratch'[r] = store[SessionOf[r]] /\ fresh'[r] = Empty
        /\ \A q \in Request : q # r => scratch'[q] = scratch[q] /\ fresh'[q] = fresh[q]
    BY <1>1, <2>1
  <2>4. ASSUME NEW q \in Request PROVE Apart(q)'
    BY <2>1, <2>2, <2>3, EmptyNoSelf DEF Apart
  <2> QED BY <2>1, <2>4
<1>4. CASE ShareNext(r)
  <2>1. /\ store' = store
        /\ \A q \in Request : q # r =>
             scratch'[q] = scratch[q] /\ fresh'[q] = fresh[q] /\ todo'[q] = todo[q]
    BY <1>1, <1>4 DEF ShareNext
  <2>2. Apart(r)'
    BY <1>4, ShareNextApart
  <2>3. ASSUME NEW q \in Request PROVE Apart(q)'
    BY <2>1, <2>2, ApartAlone
  <2> QED BY <2>1, <2>3
<1>5. CASE Persist(r)
  <2>1. UNCHANGED <<todo, scratch, fresh>> /\ (store' = store \/ store' = StoreMerged(r))
    BY <1>5 DEF Persist
  <2>2. \A q \in Request : Apart(q)'
    BY <2>1, ApartAlone
  <2>3. ASSUME store' = StoreMerged(r), NEW s \in Session PROVE NoSelf(store'[s])
    <3>1. store \in [Session -> Mappings]
      BY DEF ImageInv, ImageTypeOK
    <3>2. store' = [store EXCEPT ![SessionOf[r]] = Merge(store[SessionOf[r]], fresh[r])]
      BY <2>3 DEF StoreMerged
    <3>3. NoSelf(Merge(store[SessionOf[r]], fresh[r]))
      BY RequestAssumption, MergeNoSelf DEF Apart
    <3>4. store'[s] = IF s = SessionOf[r] THEN Merge(store[SessionOf[r]], fresh[r]) ELSE store[s]
      BY <3>1, <3>2
    <3> QED BY <3>3, <3>4
  <2> QED BY <2>1, <2>2, <2>3
<1>6. CASE \/ Begin(r) \/ Skip(r) \/ Resolve(r) \/ ResolveFails(r) \/ StoreFails(r)
           \/ Redact(r) \/ RedactFails(r)
  <2>1. UNCHANGED <<store, todo, scratch, fresh>>
    BY <1>6 DEF Begin, Skip, Resolve, ResolveFails, StoreFails, Redact, RedactFails, Fail
  <2> QED BY <2>1, ApartAlone
<1> QED BY <1>2, <1>3, <1>4, <1>5, <1>6 DEF ImageStep

\* The pseudonym of a name found in a text is not what the text has in its place.
LEMMA NewNameDiffers ==
  ASSUME TypeOK, NEW r \in Request, NEW name \in Name, NoSelf(store[SessionOf[r]]),
         NEW p \in Assign(Person, name, store[SessionOf[r]], Occurring(name)),
         NEW m, m = Merge(store[SessionOf[r]], Entries(Person, name, p, store[SessionOf[r]]))
  PROVE  NoSelf(m) /\ m[name] # NoName
<1> DEFINE s == SessionOf[r]
           new == Entries(Person, name, p, store[s])
<1>1. s \in Session /\ store[s] \in Mappings /\ Person \in Kind
  BY RequestAssumption, CallAssumption, CallTypes DEF ImageTypeOK
<1>2. p \in Name /\ p \notin Occurring(name)
  BY <1>1, AssignIsName, AssignFacts
<1>3. Fold[p] # Fold[name]
  BY <1>2 DEF Occurring
<1>4. new \in Mappings /\ new[name] = p /\ NoSelf(new)
  BY <1>1, <1>2, <1>3, EntriesFacts, EntriesNoSelf
<1> HIDE DEF new
<1>5. m = Merge(store[s], new)
  BY DEF new
<1>6. NoSelf(m)
  BY <1>4, <1>5, MergeNoSelf
<1>7. m[name] # NoName
  BY <1>1, <1>2, <1>4, <1>5, MergeFacts, NoNameAssumption
<1> QED BY <1>6, <1>7

\* A name that has a key does not stay in a text.
LEMMA RewrittenDiffers ==
  ASSUME NEW m, NoSelf(m), NEW name, name # NoName, HasKey(m, name)
  PROVE  Rewritten(name, m) # name
<1>1. PICK k \in KeysFor(m, name) : Rewritten(name, m) = m[k]
  BY DEF Rewritten, HasKey
<1>2. k \in Name /\ m[k] # NoName /\ Fold[k] = Fold[name]
  BY <1>1 DEF KeysFor, Keys
<1> QED BY <1>1, <1>2 DEF NoSelf

-----------------------------------------------------------------------------
(* One lemma for each step a call can take up to the model. *)

\* No key of a session is lost.
LEMMA KeysStay ==
  ASSUME Grows, NEW r \in Request
  PROVE  Keys(store[SessionOf[r]]) \subseteq Keys(store'[SessionOf[r]])
<1>1. SessionOf[r] \in Session
  BY RequestAssumption
<1> QED BY <1>1 DEF Grows, Keys

\* A call that is left alone keeps its part.
LEMMA ProtectedAlone ==
  ASSUME NEW q \in Request, Protected(q), Grows, piiAction' = piiAction,
         pc'[q] = pc[q], texts'[q] = texts[q], reply'[q] = reply[q], aware'[q] = aware[q],
         sentTexts'[q] = sentTexts[q], sentImages'[q] = sentImages[q]
  PROVE  Protected(q)'
<1>1. aware'[q].keys \subseteq Keys(store'[SessionOf[q]])
  BY KeysStay DEF Protected
<1>2. Originals(q)' = Originals(q)
  BY DEF Originals
<1>3. \A list : TextsProtected(q, list) => TextsProtected(q, list)'
  BY DEF TextsProtected, Secret
<1>4. \A list : ImagesShown(q, list) => ImagesShown(q, list)'
  BY DEF ImagesShown
<1>5. pc'[q] = "new" => texts'[q] = << >> /\ aware'[q].found = {}
  BY DEF Protected
<1>6. pc'[q] \in {"texts", "images"} =>
        /\ aware'[q].found \subseteq 1..Len(texts'[q])
        /\ Len(texts'[q]) <= Len(TextsOf[q])
        /\ TextsProtected(q, texts[q])'
  BY <1>3 DEF Protected
<1>7. pc'[q] = "images" => Len(texts'[q]) = Len(TextsOf[q])
  BY DEF Protected
<1>8. pc'[q] = "replied" /\ reply'[q].status = 200 /\ reply'[q].action # "BLOCKED" =>
        /\ TextsProtected(q, Substitute(reply[q].texts, TextsOf[q]))'
        /\ ImagesShown(q, Substitute(reply[q].images, Originals(q)))'
  BY <1>3, <1>4 DEF Protected, Substitute
<1>9. pc'[q] = "model" => TextsProtected(q, sentTexts[q])' /\ ImagesShown(q, sentImages[q])'
  BY <1>3, <1>4 DEF Protected
<1> QED BY <1>1, <1>5, <1>6, <1>7, <1>8, <1>9 DEF Protected

\* A call that goes no further to the model, or has been there.
LEMMA ProtectedAfter ==
  ASSUME NEW r \in Request, Protected(r), Grows, aware'[r] = aware[r],
         \/ pc'[r] \in {"answered", "reversing", "back", "over"}
         \/ /\ pc'[r] = "replied"
            /\ reply'[r].status # 200 \/ reply'[r].action = "BLOCKED"
  PROVE  Protected(r)'
<1>1. aware'[r].keys \subseteq Keys(store'[SessionOf[r]])
  BY KeysStay DEF Protected
<1> QED BY <1>1 DEF Protected

\* An accepted request has protected nothing and sent nothing.
LEMMA AcceptProtected ==
  ASSUME TypeOK, NEW r \in Request, Protected(r), Grows, Accept(r)
  PROVE  Protected(r)'
<1>1. /\ pc[r] = "new" /\ To(r, "texts") /\ texts' = texts /\ store' = store
      /\ aware' = [aware EXCEPT ![r].keys = Keys(store[SessionOf[r]])]
  BY DEF Accept, imageVars
<1>2. pc'[r] = "texts"
  BY <1>1, ToFacts DEF Phases
<1>3. aware \in [Request -> [keys : SUBSET Name, found : SUBSET Nat]]
  BY CallTypes
<1>4. aware'[r].keys = Keys(store[SessionOf[r]]) /\ aware'[r].found = aware[r].found
  BY <1>1, <1>3
<1>5. texts'[r] = << >> /\ aware'[r].found = {}
  BY <1>1, <1>4 DEF Protected
<1>6. DOMAIN << >> = {} /\ Len(<< >>) = 0
  OBVIOUS
<1>7. TextsProtected(r, texts[r])'
  BY <1>5, <1>6 DEF TextsProtected
<1>8. Len(texts'[r]) <= Len(TextsOf[r])
  BY <1>5, <1>6, SequencesOfCall
<1> QED BY <1>1, <1>2, <1>4, <1>5, <1>7, <1>8 DEF Protected

\* A refused request is not sent to the model.
LEMMA RefuseProtected ==
  ASSUME TypeOK, NEW r \in Request, Protected(r), Grows, Refuse(r)
  PROVE  Protected(r)'
<1>1. PICK quirk \in PreQuirk \ {"none"} : ReplyWith(r, "replied", Refusal(quirk))
  BY DEF Refuse
<1>2. /\ Refusal(quirk) \in Reply /\ "replied" \in Phases
      /\ Refusal(quirk).status # 200 \/ Refusal(quirk).action = "BLOCKED"
  BY CallAssumption, RefusalIsReply DEF Phases
<1>3. reply'[r] = Refusal(quirk) /\ pc'[r] = "replied" /\ aware' = aware
  BY <1>1, <1>2, ReplyFacts DEF Refuse
<1> QED BY <1>2, <1>3, ProtectedAfter

\* A request with a text that fails is not sent to the model.
LEMMA TextFailsProtected ==
  ASSUME TypeOK, NEW r \in Request, Protected(r), Grows, TextFails(r)
  PROVE  Protected(r)'
<1>1. PICK error \in {"detector", "store", "canceled"} :
        ReplyWith(r, "replied", Error(Status(error)))
  BY DEF TextFails
<1>2. /\ Error(Status(error)) \in Reply /\ "replied" \in Phases
      /\ Error(Status(error)).status # 200
  BY MappedIsReply DEF Phases
<1>3. reply'[r] = Error(Status(error)) /\ pc'[r] = "replied" /\ aware' = aware
  BY <1>1, <1>2, ReplyFacts DEF TextFails
<1> QED BY <1>2, <1>3, ProtectedAfter

\* One more text: a name that is detected in it, or has a key from before, is
\* rewritten.
LEMMA AppendProtected ==
  ASSUME TypeOK, NEW r \in Request, Protected(r), Grows, InTexts(r), pc' = pc,
         NEW mention \in Mention, texts' = [texts EXCEPT ![r] = Append(texts[r], mention)],
         aware'[r].keys = aware[r].keys,
         NEW at, at = Len(texts[r]) + 1, aware'[r].found \subseteq aware[r].found \cup {at},
         Secret(r, at)' => mention # TextsOf[r][at]
  PROVE  Protected(r)'
<1>1. /\ pc'[r] = "texts" /\ Len(texts[r]) < Len(TextsOf[r])
      /\ aware[r].found \subseteq 1..Len(texts[r]) /\ TextsProtected(r, texts[r])
  BY DEF InTexts, Protected
<1>2. /\ Len(texts[r]) \in Nat /\ Len(texts'[r]) = Len(texts[r]) + 1
      /\ texts'[r][Len(texts[r]) + 1] = mention
      /\ \A i \in 1..Len(texts[r]) : texts'[r][i] = texts[r][i]
      /\ DOMAIN texts'[r] = 1..(Len(texts[r]) + 1) /\ DOMAIN texts[r] = 1..Len(texts[r])
  BY TextFacts
<1>3. aware'[r].keys \subseteq Keys(store'[SessionOf[r]])
  BY KeysStay DEF Protected
<1>4. aware'[r].found \subseteq 1..Len(texts'[r])
  BY <1>1, <1>2
<1>5. Len(texts'[r]) <= Len(TextsOf[r])
  BY <1>1, <1>2, SequencesOfCall
<1>6. TextsProtected(r, texts[r])'
  <2> SUFFICES ASSUME NEW i \in DOMAIN texts'[r], Secret(r, i)' PROVE texts'[r][i] # TextsOf[r][i]
    BY DEF TextsProtected
  <2>1. CASE i = at
    BY <2>1, <1>2
  <2>2. CASE i # at
    <3>1. i \in 1..Len(texts[r])
      BY <2>2, <1>2
    <3>2. Secret(r, i)
      BY <2>2 DEF Secret
    <3> QED BY <1>1, <1>2, <3>1, <3>2 DEF TextsProtected
  <2> QED BY <2>1, <2>2
<1> QED BY <1>1, <1>3, <1>4, <1>5, <1>6 DEF Protected

\* A text that was detected is rewritten to another name (Pseudonymize).
LEMMA RewriteTextProtected ==
  ASSUME TypeOK, ImageInv, \A s \in Session : NoSelf(store[s]), NEW r \in Request,
         Protected(r), Grows, RewriteText(r)
  PROVE  Protected(r)' /\ \A s \in Session : NoSelf(store'[s])
<1> DEFINE s == SessionOf[r]
           name == CurrentText(r)
<1>0. PICK at : at = Len(texts[r]) + 1
  OBVIOUS
<1>1. InTexts(r) /\ pc' = pc /\ pc[r] = "texts"
  BY DEF RewriteText, InTexts
<1>2. /\ s \in Session /\ store[s] \in Mappings /\ NoSelf(store[s])
      /\ store \in [Session -> Mappings]
  BY RequestAssumption DEF ImageInv, ImageTypeOK
<1>3. /\ aware \in [Request -> [keys : SUBSET Name, found : SUBSET Nat]]
      /\ texts \in [Request -> Seq(Mention)]
  BY CallTypes
<1>4. texts[r] \in Seq(Mention) /\ Len(texts[r]) \in Nat
  BY <1>3
<1>5. name \in Mention /\ TextsOf[r][at] = name
  BY <1>0, <1>1, <1>4, SequencesOfCall DEF InTexts, CurrentText
<1>6. aware[r].keys \subseteq Keys(store[s]) /\ aware[r].found \subseteq 1..Len(texts[r])
  BY <1>1 DEF Protected
<1>7. CASE /\ name \notin {NoName} \cup AllowList /\ ~HasKey(store[s], name)
           /\ \E p \in Assign(Person, name, store[s], Occurring(name)) :
                LET m == Merge(store[s], Entries(Person, name, p, store[s]))
                IN  /\ store' = [store EXCEPT ![s] = m]
                    /\ texts' = [texts EXCEPT ![r] = Append(@, Rewritten(name, m))]
           /\ aware' = [aware EXCEPT ![r].found = @ \cup {Len(texts'[r])}]
  <2>1. name \in Name
    BY <1>5, <1>7 DEF Mention
  <2>2. PICK p \in Assign(Person, name, store[s], Occurring(name)) :
           LET m == Merge(store[s], Entries(Person, name, p, store[s]))
           IN  /\ store' = [store EXCEPT ![s] = m]
               /\ texts' = [texts EXCEPT ![r] = Append(@, Rewritten(name, m))]
    BY <1>7
  <2> DEFINE m == Merge(store[s], Entries(Person, name, p, store[s]))
  <2>3. /\ store' = [store EXCEPT ![s] = m]
        /\ texts' = [texts EXCEPT ![r] = Append(texts[r], Rewritten(name, m))]
    BY <2>2
  <2>4. m \in Mappings /\ NoSelf(m) /\ m[name] # NoName
    <3>1. m \in Mappings
      BY <2>1, <2>3, NewNameFacts
    <3>2. NoSelf(m) /\ m[name] # NoName
      BY <2>1, <1>2, NewNameDiffers
    <3> QED BY <3>1, <3>2
  <2> HIDE DEF m
  <2>5. Rewritten(name, m) # name
    BY <2>1, <2>4, KeyCovers, RewrittenDiffers, NoNameAssumption
  <2>6. Rewritten(name, m) \in Mention
    BY <1>5, <2>4, RewrittenIsMention
  <2> HIDE DEF name, s
  <2>7. Len(texts'[r]) = at
    BY <1>0, <2>3, <2>6, TextFacts
  <2>8. /\ aware'[r].keys = aware[r].keys
        /\ aware'[r].found \subseteq aware[r].found \cup {at}
    BY <1>3, <1>7, <2>7
  <2>9. Protected(r)'
    BY <1>0, <1>1, <1>5, <2>3, <2>5, <2>6, <2>8, AppendProtected
  <2>10. \A u \in Session : NoSelf(store'[u])
    BY <1>2, <2>3, <2>4
  <2> QED BY <2>9, <2>10
<1>8. CASE /\ texts' = [texts EXCEPT ![r] = Append(@, Rewritten(name, store[s]))]
           /\ UNCHANGED <<store, aware>>
  <2>1. Rewritten(name, store[s]) \in Mention
    BY <1>2, <1>5, RewrittenIsMention
  <2>2. ASSUME Secret(r, at)' PROVE Rewritten(name, store[s]) # name
    <3>1. aware'[r] = aware[r] /\ at \notin aware[r].found
      BY <1>0, <1>4, <1>6, <1>8
    <3>2. name # NoName /\ \E k \in aware[r].keys : Fold[k] = Fold[name]
      BY <1>5, <2>2, <3>1 DEF Secret
    <3>3. HasKey(store[s], name)
      BY <1>6, <3>2 DEF HasKey, KeysFor
    <3> QED BY <1>2, <3>2, <3>3, RewrittenDiffers
  <2>3. texts' = [texts EXCEPT ![r] = Append(texts[r], Rewritten(name, store[s]))]
    BY <1>8
  <2>4. aware'[r].keys = aware[r].keys /\ aware'[r].found \subseteq aware[r].found \cup {at}
    BY <1>8
  <2>5. Protected(r)'
    BY <1>0, <1>1, <1>5, <2>1, <2>2, <2>3, <2>4, AppendProtected
  <2> QED BY <1>8, <2>5
<1> QED BY <1>7, <1>8 DEF RewriteText

\* The images come after every text is done (handleRequest).
LEMMA TextsDoneProtected ==
  ASSUME TypeOK, NEW r \in Request, Protected(r), Grows, TextsDone(r)
  PROVE  Protected(r)'
<1>1. /\ pc[r] = "texts" /\ Len(texts[r]) = Len(TextsOf[r]) /\ To(r, "images")
      /\ texts' = texts /\ aware' = aware
  BY DEF TextsDone
<1>2. pc'[r] = "images"
  BY <1>1, ToFacts DEF Phases
<1>3. aware'[r].keys \subseteq Keys(store'[SessionOf[r]])
  BY <1>1, KeysStay DEF Protected
<1>4. /\ aware[r].found \subseteq 1..Len(texts[r]) /\ Len(texts[r]) <= Len(TextsOf[r])
      /\ TextsProtected(r, texts[r])
  BY <1>1 DEF Protected
<1>5. TextsProtected(r, texts[r])'
  BY <1>1, <1>4 DEF TextsProtected, Secret
<1> QED BY <1>1, <1>2, <1>3, <1>4, <1>5 DEF Protected

\* The reply's texts: those that were rewritten, or the request's own, when none
\* of them differs and so none has a name to protect.
LEMMA OutcomeTexts ==
  ASSUME TypeOK, NEW r \in Request, Protected(r), pc[r] = "images", NEW list,
         list = IF Differs(texts[r], TextsOf[r]) THEN texts[r] ELSE << >>
  PROVE  TextsProtected(r, Substitute(list, TextsOf[r]))
<1>1. TextsProtected(r, texts[r]) /\ Len(texts[r]) = Len(TextsOf[r])
  BY DEF Protected
<1>2. texts[r] \in Seq(Mention)
  BY CallTypes
<1>3. DOMAIN texts[r] = DOMAIN TextsOf[r]
  BY <1>1, <1>2, SequencesOfCall
<1>4. CASE Differs(texts[r], TextsOf[r])
  <2>1. texts[r] # << >>
    BY <1>4 DEF Differs
  <2> QED BY <1>1, <1>4, <2>1 DEF Substitute
<1>5. CASE ~ Differs(texts[r], TextsOf[r])
  <2>1. \A i \in DOMAIN TextsOf[r] : texts[r][i] = TextsOf[r][i]
    BY <1>3, <1>5 DEF Differs
  <2>2. Substitute(list, TextsOf[r]) = TextsOf[r]
    BY <1>5 DEF Substitute
  <2> QED BY <1>1, <1>3, <2>1, <2>2 DEF TextsProtected
<1> QED BY <1>4, <1>5

\* The reply's images: the list of the image pass, or the request's own, when
\* none of them shows personal data.
LEMMA OutcomeImages ==
  ASSUME ImageInv, NEW r \in Request, stage[r] = "done", NEW list,
         list = IF Modified(r) THEN outputs[r] ELSE << >>
  PROVE  ImagesShown(r, Substitute(list, Originals(r)))
<1> SUFFICES ASSUME piiAction # "passthrough", NEW i \in DOMAIN Substitute(list, Originals(r)),
                    Substitute(list, Originals(r))[i].image \in Personal
             PROVE  Substitute(list, Originals(r))[i].form = "redacted"
  BY DEF ImagesShown
<1>1. outputs[r] \in Seq(Output) /\ Len(outputs[r]) = Len(ImagesOf[r])
  BY DEF ImageInv, ImageTypeOK, InList
<1>2. \A j \in DOMAIN outputs[r] :
        /\ outputs[r][j].image = ImagesOf[r][j]
        /\ outputs[r][j].image \in Personal => outputs[r][j].form = "redacted"
  BY DEF ImageInv, InList, Covered
<1>3. DOMAIN outputs[r] = 1..Len(ImagesOf[r])
  BY <1>1
<1>4. CASE Modified(r)
  <2>1. outputs[r] # << >>
    <3>1. \E j \in DOMAIN outputs[r] : TRUE
      BY <1>4 DEF Modified
    <3> QED BY <3>1
  <2>2. Substitute(list, Originals(r)) = outputs[r]
    BY <1>4, <2>1 DEF Substitute
  <2> QED BY <1>2, <2>2
<1>5. CASE ~ Modified(r)
  <2>1. Substitute(list, Originals(r)) = Originals(r)
    BY <1>5 DEF Substitute
  <2>2. i \in 1..Len(ImagesOf[r]) /\ Originals(r)[i].image = ImagesOf[r][i]
    BY <2>1, SequencesOfCall
  <2>3. outputs[r][i].form = "redacted"
    BY <1>2, <1>3, <2>1, <2>2
  <2> QED BY <1>3, <1>5, <2>2, <2>3 DEF Modified
<1> QED BY <1>4, <1>5

\* A reply of NONE means that nothing was found, any other carries what is
\* protected (handleRequest).
LEMMA RespondProtected ==
  ASSUME TypeOK, ImageInv, NEW r \in Request, Protected(r), Grows, Respond(r)
  PROVE  Protected(r)'
<1>1. /\ pc[r] = "images" /\ Ended(r) /\ ReplyWith(r, "replied", Outcome(r))
      /\ aware' = aware /\ piiAction' = piiAction /\ "replied" \in Phases
  BY DEF Respond, imageVars, Phases
<1>2. Outcome(r) \in Reply
  BY <1>1, OutcomeFacts
<1>3. reply'[r] = Outcome(r) /\ pc'[r] = "replied"
  BY <1>1, <1>2, ReplyFacts
<1>4. CASE Outcome(r).status # 200 \/ Outcome(r).action = "BLOCKED"
  BY <1>1, <1>3, <1>4, ProtectedAfter
<1>5. CASE ~ (Outcome(r).status # 200 \/ Outcome(r).action = "BLOCKED")
  <2>1. /\ stage[r] = "done"
        /\ Outcome(r).texts = IF Differs(texts[r], TextsOf[r]) THEN texts[r] ELSE << >>
        /\ Outcome(r).images = IF Modified(r) THEN outputs[r] ELSE << >>
    BY <1>1, <1>5, OutcomeFacts
  <2>2. TextsProtected(r, Substitute(Outcome(r).texts, TextsOf[r]))
    BY <1>1, <2>1, OutcomeTexts
  <2>3. ImagesShown(r, Substitute(Outcome(r).images, Originals(r)))
    BY <2>1, OutcomeImages
  <2>4. TextsProtected(r, Substitute(reply[r].texts, TextsOf[r]))'
    BY <1>1, <1>3, <2>2 DEF TextsProtected, Secret, Substitute
  <2>5. ImagesShown(r, Substitute(reply[r].images, Originals(r)))'
    BY <1>1, <1>3, <2>3 DEF ImagesShown, Substitute, Originals
  <2>6. aware'[r].keys \subseteq Keys(store'[SessionOf[r]])
    BY <1>1, KeysStay DEF Protected
  <2> QED BY <1>3, <2>4, <2>5, <2>6 DEF Protected
<1> QED BY <1>4, <1>5

\* The gateway sends what the reply has in place of the request's own.
LEMMA ForwardProtected ==
  ASSUME TypeOK, NEW r \in Request, Protected(r), Grows, Forward(r)
  PROVE  Protected(r)'
<1>1. /\ pc[r] = "replied" /\ reply[r].status = 200 /\ reply[r].action # "BLOCKED"
      /\ To(r, "model") /\ aware' = aware /\ piiAction' = piiAction
      /\ sentTexts' = [sentTexts EXCEPT ![r] = Substitute(reply[r].texts, TextsOf[r])]
      /\ sentImages' = [sentImages EXCEPT ![r] = Substitute(reply[r].images, Originals(r))]
  BY DEF Forward, imageVars
<1>2. pc'[r] = "model"
  BY <1>1, ToFacts DEF Phases
<1>3. sentTexts \in [Request -> Seq(Mention)] /\ sentImages \in [Request -> Seq(Output)]
  BY CallTypes
<1>4. /\ sentTexts'[r] = Substitute(reply[r].texts, TextsOf[r])
      /\ sentImages'[r] = Substitute(reply[r].images, Originals(r))
  BY <1>1, <1>3
<1>5. TextsProtected(r, sentTexts[r])'
  BY <1>1, <1>4 DEF Protected, TextsProtected, Secret
<1>6. ImagesShown(r, sentImages[r])'
  BY <1>1, <1>4 DEF Protected, ImagesShown
<1>7. aware'[r].keys \subseteq Keys(store'[SessionOf[r]])
  BY <1>1, KeysStay DEF Protected
<1> QED BY <1>2, <1>5, <1>6, <1>7 DEF Protected

\* The steps behind the model.
LEMMA LaterProtected ==
  ASSUME TypeOK, ImageInv, NEW r \in Request, Protected(r), Grows,
         \/ GiveUp(r) \/ ModelAnswers(r) \/ AcceptBack(r) \/ RefuseBack(r)
         \/ ReverseText(r) \/ ReverseUnavailable(r) \/ RespondBack(r) \/ Deliver(r)
  PROVE  Protected(r)'
<1>1. aware' = aware
  BY DEF GiveUp, ModelAnswers, AcceptBack, RefuseBack, ReverseText, ReverseUnavailable,
         RespondBack, Deliver
<1>2. \/ pc' = pc /\ pc[r] = "reversing"
      \/ \E label \in {"answered", "reversing", "back", "over"} : To(r, label)
  BY DEF GiveUp, ModelAnswers, AcceptBack, RefuseBack, ReverseText, InAnswer,
         ReverseUnavailable, RespondBack, Deliver, ReplyWith
<1>3. pc'[r] \in {"answered", "reversing", "back", "over"}
  BY <1>2, ToFacts DEF Phases
<1> QED BY <1>1, <1>3, ProtectedAfter

\* A request that loses its process is not sent to the model.
LEMMA CutOffProtected ==
  ASSUME TypeOK, ImageInv, NEW requests \in SUBSET Request, CutOff(requests),
         NEW r \in Request, Protected(r)
  PROVE  Protected(r)'
<1>1. Grows /\ piiAction' = piiAction /\ UNCHANGED <<texts, aware, sentTexts, sentImages>>
  BY CutOffFacts DEF CutOff
<1>2. CASE r \notin requests
  BY <1>1, <1>2, CutOffFacts, ProtectedAlone
<1>3. CASE r \in requests
  <2>1. pc'[r] \in {"back", "replied"} /\ reply'[r].status # 200
    BY <1>3, CutOffFacts
  <2> QED BY <1>1, <2>1, ProtectedAfter
<1> QED BY <1>2, <1>3

-----------------------------------------------------------------------------
\* A step of a call keeps the invariant.
LEMMA CallProtected ==
  ASSUME ReadNamesDiffer, ProtectedInv, NEW r \in Request, HandlerStep(r)
  PROVE  /\ \A s \in Session : NoSelf(store'[s])
         /\ \A q \in Request : Apart(q)' /\ Protected(q)'
<1>1. /\ TypeOK /\ ImageInv /\ \A s \in Session : NoSelf(store[s])
      /\ \A q \in Request : Apart(q) /\ Protected(q)
  BY DEF ProtectedInv, ServerInv, ServerTypeOK
<1>2. Alone(r) /\ Grows /\ piiAction' = piiAction
  BY <1>1, CallSteady DEF Steady
<1>3. ASSUME NEW q \in Request, q # r PROVE Protected(q)'
  BY <1>1, <1>2, <1>3, ProtectedAlone DEF Alone
<1>4. CASE HandleImages(r)
  <2>1. ImageStep(r) /\ UNCHANGED callVars
    BY <1>4 DEF HandleImages
  <2>2. Protected(r)'
    BY <1>1, <1>2, <2>1, ProtectedAlone DEF callVars
  <2> QED BY <1>1, <1>3, <2>1, <2>2, ImageStepApart
<1>5. CASE RewriteText(r)
  <2>1. UNCHANGED <<scratch, fresh, todo>>
    BY <1>5 DEF RewriteText
  <2>2. \A q \in Request : Apart(q)'
    BY <1>1, <2>1, ApartAlone
  <2> QED BY <1>1, <1>2, <1>3, <1>5, <2>2, RewriteTextProtected
<1>6. CASE ~ HandleImages(r) /\ ~ RewriteText(r)
  <2>1. UNCHANGED imageVars
    BY <1>6 DEF HandlerStep, Accept, Refuse, TextFails, TextsDone, Respond, Forward, GiveUp,
       ModelAnswers, AcceptBack, RefuseBack, ReverseText, ReverseUnavailable, RespondBack, Deliver
  <2>2. UNCHANGED <<store, scratch, fresh, todo>>
    BY <2>1 DEF imageVars
  <2>3. \A q \in Request : Apart(q)'
    BY <1>1, <2>2, ApartAlone
  <2>4. Protected(r)'
    BY <1>1, <1>2, <1>6, AcceptProtected, RefuseProtected, TextFailsProtected,
       TextsDoneProtected, RespondProtected, ForwardProtected, LaterProtected DEF HandlerStep
  <2> QED BY <1>1, <1>3, <2>2, <2>3, <2>4
<1> QED BY <1>4, <1>5, <1>6

\* Every step of every request keeps what is sent protected.
LEMMA NextProtected ==
  ASSUME ReadNamesDiffer
  PROVE  ProtectedInv /\ [ServerNext]_vars => ProtectedInv'
<1> SUFFICES ASSUME ProtectedInv, [ServerNext]_vars PROVE ProtectedInv'
  OBVIOUS
<1>1. /\ ServerInv /\ TypeOK /\ ImageInv /\ \A s \in Session : NoSelf(store[s])
      /\ \A q \in Request : Apart(q) /\ Protected(q)
  BY DEF ProtectedInv, ServerInv, ServerTypeOK
<1>2. ServerInv'
  BY <1>1, NextServerInv
<1>3. ASSUME NEW r \in Request, HandlerStep(r) PROVE ProtectedInv'
  BY <1>2, <1>3, CallProtected DEF ProtectedInv
<1>4. ASSUME NEW requests \in SUBSET Request, CutOff(requests) PROVE ProtectedInv'
  <2>1. UNCHANGED <<store, scratch, fresh, todo>>
    BY <1>4 DEF CutOff, imageVars
  <2>2. \A q \in Request : Apart(q)' /\ Protected(q)'
    BY <1>1, <1>4, <2>1, ApartAlone, CutOffProtected
  <2> QED BY <1>1, <1>2, <2>1, <2>2 DEF ProtectedInv
<1>5. CASE UNCHANGED handlerVars
  <2>1. UNCHANGED <<imageVars, callVars>>
    BY <1>5 DEF handlerVars
  <2>2. UNCHANGED <<store, scratch, fresh, todo, piiAction>> /\ Grows
    BY <2>1 DEF imageVars, Grows
  <2>3. \A q \in Request : Apart(q)' /\ Protected(q)'
    BY <1>1, <2>1, <2>2, ApartAlone, ProtectedAlone DEF callVars
  <2> QED BY <1>1, <1>2, <2>2, <2>3 DEF ProtectedInv
<1> QED BY <1>3, <1>4, <1>5, StepKinds

\* Fail-closed end to end: whatever is unavailable, however calls of a session
\* overlap and whenever the process stops, what the model is sent shows no
\* personal image, and no name that was detected or mapped before.
THEOREM ModelSeesNoName ==
  ASSUME ReadNamesDiffer
  PROVE  ServerSpec => []OnlyProtectedSent
<1>1. ServerInit => ProtectedInv
  <2> SUFFICES ASSUME ServerInit PROVE ProtectedInv
    OBVIOUS
  <2>1. ServerInv
    BY InitServerInv
  <2>2. \A s \in Session : NoSelf(store[s])
    BY EmptyNoSelf DEF ServerInit, Init, ImageInit
  <2>3. ASSUME NEW r \in Request PROVE Apart(r)
    BY EmptyNoSelf DEF ServerInit, Init, ImageInit, Apart
  <2>4. ASSUME NEW r \in Request PROVE Protected(r)
    BY DEF ServerInit, Init, Protected
  <2> QED BY <2>1, <2>2, <2>3, <2>4 DEF ProtectedInv
<1>2. ProtectedInv => OnlyProtectedSent
  <2> SUFFICES ASSUME ProtectedInv, NEW r \in Request, pc[r] = "model"
               PROVE  TextsProtected(r, sentTexts[r]) /\ ImagesShown(r, sentImages[r])
    BY DEF OnlyProtectedSent, TextsProtected, Secret, ImagesShown
  <2> QED BY DEF ProtectedInv, Protected
<1> QED BY <1>1, <1>2, NextProtected, PTL DEF ServerSpec

-----------------------------------------------------------------------------
(* What is assumed of the calls. *)

\* The calls of a session wait for one another: among them there is an order in
\* which each waits for one that comes behind all those before it.
InTurn(order) ==
  \A q, r \in Request : q # r /\ SessionOf[q] = SessionOf[r] =>
    /\ order[q] # order[r]
    /\ order[r] < order[q] =>
         /\ Previous[q] # q /\ SessionOf[Previous[q]] = SessionOf[q]
         /\ order[r] <= order[Previous[q]]

\* A post-call request identifies the session of its pre-call request.
SameSession == \A r \in Request : BackSession(r) = SessionOf[r]

\* No text mentions a configured pseudonym, or the first or last name of one.
NoPseudonymSent ==
  \A r \in Request : \A i \in DOMAIN TextsOf[r] : TextsOf[r][i] # NoName =>
    \A kind \in Kind : \A p \in PseudonymsOf(kind) :
      \A a \in Given(kind, p) : Fold[a] # Fold[TextsOf[r][i]]

-----------------------------------------------------------------------------
(* Calls that wait for one another. *)

\* When a call has begun, those before it are over.
EarlierOver(order) ==
  \A q, r \in Request :
    q # r /\ SessionOf[q] = SessionOf[r] /\ order[r] < order[q] /\ pc[q] # "new" =>
      pc[r] = "over"

\* A call that is over stays over, and one that begins has waited.
LEMMA BeginsInTurn ==
  ASSUME ServerInv, [ServerNext]_vars, NEW q \in Request
  PROVE  /\ pc[q] = "over" => pc'[q] = "over"
         /\ pc[q] = "new" /\ pc'[q] # "new" => Previous[q] = q \/ pc[Previous[q]] = "over"
<1>1. TypeOK /\ ImageInv
  BY DEF ServerInv, ServerTypeOK
<1> DEFINE Turn == /\ pc[q] = "over" => pc'[q] = "over"
                   /\ pc[q] = "new" /\ pc'[q] # "new" =>
                        Previous[q] = q \/ pc[Previous[q]] = "over"
<1> SUFFICES Turn
  OBVIOUS
<1>2. ASSUME NEW r \in Request, HandlerStep(r) PROVE Turn
  <2>1. CASE q # r
    <3>1. pc'[q] = pc[q]
      BY <1>1, <1>2, <2>1, CallSteady DEF Steady, Alone
    <3> QED BY <3>1
  <2>2. CASE q = r
    BY <1>2, <2>2 DEF HandlerStep, Accept, Refuse, RewriteText, InTexts, TextFails, TextsDone,
       HandleImages, Respond, Forward, GiveUp, ModelAnswers, AcceptBack, RefuseBack,
       ReverseText, InAnswer, ReverseUnavailable, RespondBack, Deliver
  <2> QED BY <2>1, <2>2
<1>3. ASSUME NEW requests \in SUBSET Request, CutOff(requests), Open(requests),
             q \notin requests \/ pc[q] # "new" \/ Previous[q] = q \/ pc[Previous[q]] = "over"
      PROVE  Turn
  <2>1. CASE q \in requests
    BY <1>3, <2>1 DEF Open
  <2>2. CASE q \notin requests
    BY <1>1, <1>3, <2>2, CutOffFacts
  <2> QED BY <2>1, <2>2
<1>4. CASE UNCHANGED pc
  BY <1>4
<1> HIDE DEF Turn
<1>5. ASSUME NEW r \in Request, Serve(r) \/ Gateway(r) PROVE Turn
  BY <1>2, <1>5 DEF Serve, Arrive, Work, FailsWithoutStore, Gateway, HandlerStep,
     HandleImages, ImageStep
<1>6. ASSUME NEW r \in Request, Unreachable(r) \/ WriteTimesOut(r) PROVE Turn
  <2>1. CutOff({r}) /\ Open({r})
    BY <1>6 DEF Unreachable, WriteTimesOut, Open
  <2>2. pc[r] = "new" => Previous[r] = r \/ pc[Previous[r]] = "over"
    BY <1>6 DEF Unreachable, WriteTimesOut
  <2> QED BY <1>3, <2>1, <2>2
<1>7. CASE Process
  <2> DEFINE flying == {r \in Request : InFlight(r)}
  <2>1. UNCHANGED handlerVars \/ CutOff(flying)
    BY <1>7 DEF Process, Signal, Drained, DrainTimesOut, Exit, Crash, Boot
  <2>2. /\ Open(flying) /\ flying \in SUBSET Request
        /\ q \in flying => pc[q] # "new"
    BY DEF Open, InFlight
  <2> HIDE DEF flying
  <2>3. CASE UNCHANGED handlerVars
    BY <1>4, <2>3 DEF handlerVars, callVars
  <2>4. CASE CutOff(flying)
    BY <1>3, <2>2, <2>4
  <2> QED BY <2>1, <2>3, <2>4
<1>8. CASE UNCHANGED vars
  BY <1>4, <1>8 DEF vars, handlerVars, callVars
<1>9. (\E r \in Request : Call(r)) \/ Process \/ UNCHANGED vars
  BY DEF ServerNext, AllOver
<1>10. ASSUME NEW r \in Request, Call(r) PROVE Turn
  BY <1>5, <1>6, <1>10 DEF Call
<1> QED BY <1>7, <1>8, <1>9, <1>10

\* Calls take their turns.
LEMMA NextEarlierOver ==
  ASSUME NEW order \in [Request -> Nat], InTurn(order), ServerInv, EarlierOver(order),
         [ServerNext]_vars
  PROVE  EarlierOver(order)'
<1> SUFFICES ASSUME NEW q \in Request, NEW r \in Request, q # r,
                    SessionOf[q] = SessionOf[r], order[r] < order[q], pc'[q] # "new"
             PROVE  pc'[r] = "over"
  BY DEF EarlierOver
<1>1. pc[r] = "over" => pc'[r] = "over"
  BY BeginsInTurn
<1>2. CASE pc[q] # "new"
  BY <1>1, <1>2 DEF EarlierOver
<1>3. CASE pc[q] = "new"
  <2> DEFINE p == Previous[q]
  <2>1. p # q /\ SessionOf[p] = SessionOf[r] /\ order[r] <= order[p]
    BY DEF InTurn
  <2>2. pc[p] = "over"
    BY <1>3, <2>1, BeginsInTurn
  <2>3. p \in Request
    BY CallAssumption
  <2> HIDE DEF p
  <2>4. p = r \/ order[r] < order[p]
    <3>1. p # r => order[p] # order[r]
      BY <2>1, <2>3 DEF InTurn
    <3> QED BY <2>1, <2>3, <3>1
  <2> QED BY <1>1, <2>1, <2>2, <2>3, <2>4 DEF EarlierOver
<1> QED BY <1>2, <1>3

\* While a call is at work, no other call of its session is.
LEMMA OthersWait ==
  ASSUME NEW order \in [Request -> Nat], InTurn(order), EarlierOver(order),
         NEW r \in Request, pc[r] \notin {"new", "over"},
         NEW q \in Request, q # r, SessionOf[q] = SessionOf[r]
  PROVE  pc[q] \in {"new", "over"}
<1>1. order[q] # order[r] /\ order[q] \in Nat /\ order[r] \in Nat
  BY DEF InTurn
<1>2. order[q] < order[r] \/ order[r] < order[q]
  BY <1>1
<1> QED BY <1>2 DEF EarlierOver

-----------------------------------------------------------------------------
(* Names and pseudonyms pair off. *)

\* A request shares the names it read in an image.
Sharing(r) == pc[r] = "images" /\ stage[r] = "assign"

\* The working copy of shareWithMapping goes beyond the session's mapping by
\* the new entries; in both, names and pseudonyms pair off.
CopyAhead(r) ==
  /\ pc[r] \in {"new", "texts"} => stage[r] = "off"
  /\ Sharing(r) =>
       /\ Within(store[SessionOf[r]], scratch[r]) /\ Within(fresh[r], scratch[r])
       /\ Distinct(scratch[r]) /\ Owned(scratch[r]) /\ Owned(fresh[r])

PairedOff ==
  /\ \A s \in Session : Distinct(store[s]) /\ Owned(store[s])
  /\ \A r \in Request : CopyAhead(r)

\* Steps that leave the mappings and the image passes alone.
LEMMA PairedStay ==
  ASSUME PairedOff, UNCHANGED <<store, stage, scratch, fresh>>,
         \A q \in Request :
           /\ pc'[q] \in {"new", "texts"} => pc[q] \in {"new", "texts"}
           /\ pc'[q] = "images" => pc[q] \in {"texts", "images"}
  PROVE  PairedOff'
<1>1. ASSUME NEW q \in Request PROVE CopyAhead(q)'
  <2>1. CopyAhead(q)
    BY DEF PairedOff
  <2>2. Sharing(q)' => Sharing(q)
    BY <2>1 DEF Sharing, CopyAhead
  <2> QED BY <2>1, <2>2 DEF CopyAhead
<1> QED BY <1>1 DEF PairedOff

\* A step that writes the mapping of one session: nobody else of it shares.
LEMMA PairedWrite ==
  ASSUME PairedOff, NEW r \in Request,
         \A q \in Request : q # r => pc'[q] = pc[q] /\ stage'[q] = stage[q]
                                     /\ scratch'[q] = scratch[q] /\ fresh'[q] = fresh[q],
         \A q \in Request : q # r /\ SessionOf[q] = SessionOf[r] => ~Sharing(q),
         \A s \in Session : s # SessionOf[r] => store'[s] = store[s],
         Distinct(store'[SessionOf[r]]), Owned(store'[SessionOf[r]]),
         CopyAhead(r)'
  PROVE  PairedOff'
<1>1. ASSUME NEW s \in Session PROVE Distinct(store'[s]) /\ Owned(store'[s])
  <2>1. CASE s = SessionOf[r]
    BY <2>1
  <2>2. CASE s # SessionOf[r]
    <3>1. store'[s] = store[s]
      BY <2>2
    <3> QED BY <3>1 DEF PairedOff
  <2> QED BY <2>1, <2>2
<1>2. ASSUME NEW q \in Request, q # r PROVE CopyAhead(q)'
  <2>1. CopyAhead(q) /\ SessionOf[q] \in Session
    BY RequestAssumption DEF PairedOff
  <2>2. Sharing(q)' => Sharing(q) /\ store'[SessionOf[q]] = store[SessionOf[q]]
    BY <1>2, <2>1 DEF Sharing
  <2>3. /\ pc'[q] = pc[q] /\ stage'[q] = stage[q]
        /\ scratch'[q] = scratch[q] /\ fresh'[q] = fresh[q]
    BY <1>2
  <2>4. Sharing(q)' => /\ Within(store'[SessionOf[q]], scratch'[q])
                       /\ Within(fresh'[q], scratch'[q])
                       /\ Distinct(scratch'[q]) /\ Owned(scratch'[q]) /\ Owned(fresh'[q])
    BY <2>1, <2>2, <2>3 DEF CopyAhead
  <2>5. pc'[q] \in {"new", "texts"} => stage'[q] = "off"
    BY <2>1, <2>3 DEF CopyAhead
  <2> QED BY <2>4, <2>5 DEF CopyAhead
<1> QED BY <1>1, <1>2 DEF PairedOff

\* Nobody else of the session shares while a call is at work.
LEMMA NobodyElseShares ==
  ASSUME NEW order \in [Request -> Nat], InTurn(order), EarlierOver(order),
         NEW r \in Request, pc[r] \in {"texts", "images"}
  PROVE  \A q \in Request : q # r /\ SessionOf[q] = SessionOf[r] => ~Sharing(q)
BY OthersWait DEF Sharing

\* A text is rewritten: its name may be mapped.
LEMMA RewriteTextPaired ==
  ASSUME PseudonymsApart, NEW order \in [Request -> Nat], InTurn(order), EarlierOver(order),
         TypeOK, PairedOff, NEW r \in Request, RewriteText(r)
  PROVE  PairedOff'
<1> DEFINE s == SessionOf[r]
           name == CurrentText(r)
<1>1. pc[r] = "texts" /\ UNCHANGED <<pc, stage, scratch, fresh>>
  BY DEF RewriteText, InTexts
<1>2. /\ s \in Session /\ store \in [Session -> Mappings] /\ store[s] \in Mappings
      /\ Distinct(store[s]) /\ Owned(store[s])
  BY RequestAssumption DEF TypeOK, ImageTypeOK, PairedOff
<1>3. name \in Mention
  BY CallTypes, SequencesOfCall DEF RewriteText, InTexts, CurrentText
<1>4. CASE UNCHANGED store
  BY <1>1, <1>4, PairedStay
<1>5. ASSUME name # NoName, ~HasKey(store[s], name),
             NEW p \in Assign(Person, name, store[s], Occurring(name)),
             store' = [store EXCEPT ![s] = Merge(store[s], Entries(Person, name, p, store[s]))]
      PROVE  PairedOff'
  <2>1. name \in Name /\ Person \in Kind
    BY <1>3, <1>5, CallAssumption DEF Mention
  <2>2. PICK parts \in SUBSET Parts(Person, name, p, store[s]) :
          Entries(Person, name, p, store[s]) = WithParts(name, p, parts)
    BY EntriesAreParts
  <2> DEFINE m == Merge(store[s], WithParts(name, p, parts))
  <2>3. Distinct(m) /\ Owned(m)
    BY <1>2, <1>5, <2>1, NewEntity
  <2> HIDE DEF m, s, name
  <2>4. store' = [store EXCEPT ![s] = m]
    BY <1>5, <2>2 DEF m
  <2>5. store'[s] = m /\ \A t \in Session : t # s => store'[t] = store[t]
    BY <1>2, <2>4
  <2>6. CopyAhead(r)'
    <3>1. CopyAhead(r)
      BY DEF PairedOff
    <3> QED BY <1>1, <3>1 DEF CopyAhead, Sharing
  <2>7. \A q \in Request : q # r /\ SessionOf[q] = SessionOf[r] => ~Sharing(q)
    BY <1>1, NobodyElseShares
  <2>8. Distinct(store'[s]) /\ Owned(store'[s])
    BY <2>3, <2>5
  <2> QED BY <1>1, <2>5, <2>6, <2>7, <2>8, PairedWrite DEF s
<1>6. \/ UNCHANGED store
      \/ /\ name # NoName /\ ~HasKey(store[s], name)
         /\ \E p \in Assign(Person, name, store[s], Occurring(name)) :
              store' = [store EXCEPT ![s] = Merge(store[s], Entries(Person, name, p, store[s]))]
  BY DEF RewriteText
<1> QED BY <1>4, <1>5, <1>6

\* The copy of a request behind one of its steps (shareWithMapping).
LEMMA ShareNextAhead ==
  ASSUME PseudonymsApart, ImageInv, NEW r \in Request, Sharing(r), CopyAhead(r),
         UNCHANGED pc, ShareNext(r)
  PROVE  CopyAhead(r)'
<1> DEFINE m == scratch[r]
           stored == store[SessionOf[r]]
<1>1. /\ stage' = stage /\ store' = store
      /\ m \in Mappings /\ fresh[r] \in Mappings
      /\ scratch \in [Request -> Mappings] /\ fresh \in [Request -> Mappings]
  BY DEF ShareNext, ImageInv, ImageTypeOK
<1>2. /\ Within(stored, m) /\ Within(fresh[r], m)
      /\ Distinct(m) /\ Owned(m) /\ Owned(fresh[r])
  BY DEF CopyAhead
<1>3. CASE UNCHANGED <<scratch, fresh>>
  BY <1>1, <1>3 DEF CopyAhead, Sharing
<1>4. ASSUME NEW d \in todo[r], ~HasKey(m, d.name), NEW p \in Assign(d.kind, d.name, m, {}),
             NEW new, new = WithParts(d.name, p, Parts(d.kind, d.name, p, m)),
             scratch' = [scratch EXCEPT ![r] = Merge(m, new)],
             fresh' = [fresh EXCEPT ![r] = Merge(fresh[r], new)]
      PROVE  CopyAhead(r)'
  <2>0. todo[r] \in SUBSET Detection
    BY DEF ImageInv, ImageTypeOK
  <2>1. d.name \in Name /\ d.kind \in Kind
    BY <2>0 DEF Detection
  <2> DEFINE copy == Merge(m, new)
  <2>2. /\ new \in Mappings /\ Within(m, copy) /\ Within(new, copy)
        /\ Distinct(copy) /\ Owned(copy) /\ Owned(new)
    BY <1>1, <1>2, <1>4, <2>1, NewEntity
  <2>3. scratch'[r] = copy /\ fresh'[r] = Merge(fresh[r], new)
    BY <1>1, <1>4
  <2> HIDE DEF copy, m
  <2>4. Within(stored, copy) /\ Within(fresh[r], copy)
    BY <1>2, <2>2, WithinKeys DEF Within
  <2>5. Within(Merge(fresh[r], new), copy) /\ Owned(Merge(fresh[r], new))
    BY <1>1, <1>2, <2>2, <2>4, MergeWithin, MergeOwned
  <2>6. pc'[r] = "images" /\ store'[SessionOf[r]] = stored
    BY <1>1 DEF Sharing
  <2> QED BY <2>2, <2>3, <2>4, <2>5, <2>6 DEF CopyAhead
<1>5. \/ UNCHANGED <<scratch, fresh>>
      \/ \E d \in todo[r] :
           /\ ~HasKey(m, d.name)
           /\ \E p \in Assign(d.kind, d.name, m, {}) :
                LET new == WithParts(d.name, p, Parts(d.kind, d.name, p, m))
                IN  /\ scratch' = [scratch EXCEPT ![r] = Merge(m, new)]
                    /\ fresh' = [fresh EXCEPT ![r] = Merge(fresh[r], new)]
  BY <1>1 DEF ShareNext
<1> QED BY <1>3, <1>4, <1>5

\* The new entries of an image are written: nobody wrote in between.
LEMMA PersistPaired ==
  ASSUME ImageInv, PairedOff, NEW r \in Request, Sharing(r), Persist(r)
  PROVE  /\ Distinct(store'[SessionOf[r]]) /\ Owned(store'[SessionOf[r]])
         /\ \A s \in Session : s # SessionOf[r] => store'[s] = store[s]
<1> DEFINE stored == store[SessionOf[r]]
<1>1. /\ SessionOf[r] \in Session /\ store \in [Session -> Mappings]
      /\ stored \in Mappings /\ fresh[r] \in Mappings
      /\ Distinct(stored) /\ Owned(stored)
  BY RequestAssumption DEF ImageInv, ImageTypeOK, PairedOff
<1>2. /\ Within(stored, scratch[r]) /\ Within(fresh[r], scratch[r])
      /\ Distinct(scratch[r]) /\ Owned(fresh[r])
  BY DEF PairedOff, CopyAhead
<1>3. CASE store' = store
  BY <1>1, <1>3
<1>4. CASE store' = StoreMerged(r)
  <2> DEFINE merged == Merge(stored, fresh[r])
  <2>1. Within(merged, scratch[r]) /\ Owned(merged)
    BY <1>1, <1>2, MergeWithin, MergeOwned
  <2>2. Distinct(merged)
    BY <1>2, <2>1, WithinKeeps
  <2>3. store' = [store EXCEPT ![SessionOf[r]] = merged]
    BY <1>4 DEF StoreMerged
  <2> HIDE DEF merged, stored
  <2>4. /\ store'[SessionOf[r]] = merged
        /\ \A s \in Session : s # SessionOf[r] => store'[s] = store[s]
    BY <1>1, <2>3
  <2> QED BY <2>1, <2>2, <2>4
<1> QED BY <1>3, <1>4 DEF Persist

\* A step of the image pass.
LEMMA ImageStepPaired ==
  ASSUME PseudonymsApart, NEW order \in [Request -> Nat], InTurn(order), EarlierOver(order),
         ImageInv, PairedOff, NEW r \in Request, pc[r] = "images", ImageStep(r), UNCHANGED pc
  PROVE  PairedOff'
<1>1. /\ scratch \in [Request -> Mappings] /\ fresh \in [Request -> Mappings]
      /\ stage \in [Request -> Stages] /\ store \in [Session -> Mappings]
      /\ SessionOf[r] \in Session /\ CopyAhead(r)
      /\ Distinct(store[SessionOf[r]]) /\ Owned(store[SessionOf[r]])
  BY RequestAssumption DEF ImageInv, ImageTypeOK, Stages, PairedOff
<1>2. \A q \in Request : q # r /\ SessionOf[q] = SessionOf[r] => ~Sharing(q)
  BY NobodyElseShares
<1>3. ASSUME UNCHANGED store,
             \A q \in Request : q # r => stage'[q] = stage[q]
                                         /\ scratch'[q] = scratch[q] /\ fresh'[q] = fresh[q],
             CopyAhead(r)'
      PROVE  PairedOff'
  BY <1>1, <1>2, <1>3, PairedWrite
<1>4. ASSUME NEW label, label # "assign", stage' = [stage EXCEPT ![r] = label],
             UNCHANGED <<scratch, fresh>>
      PROVE  /\ \A q \in Request : q # r => stage'[q] = stage[q]
                                            /\ scratch'[q] = scratch[q] /\ fresh'[q] = fresh[q]
             /\ CopyAhead(r)'
  BY <1>1, <1>4 DEF CopyAhead, Sharing
<1>5. CASE LoadMapping(r)
  <2>1. /\ store' = store /\ stage' = [stage EXCEPT ![r] = "assign"]
        /\ scratch' = [scratch EXCEPT ![r] = store[SessionOf[r]]]
        /\ fresh' = [fresh EXCEPT ![r] = Empty]
    BY <1>5 DEF LoadMapping, Goto
  <2>2. /\ scratch'[r] = store[SessionOf[r]] /\ fresh'[r] = Empty
        /\ \A q \in Request : q # r => stage'[q] = stage[q]
                                       /\ scratch'[q] = scratch[q] /\ fresh'[q] = fresh[q]
    BY <1>1, <2>1
  <2>3. Within(store'[SessionOf[r]], scratch'[r])
    BY <2>1, <2>2 DEF Within
  <2>4. Within(fresh'[r], scratch'[r]) /\ Owned(fresh'[r])
    BY <2>2, EmptyWithin, EmptyOwned
  <2>5. CopyAhead(r)'
    BY <1>1, <2>2, <2>3, <2>4 DEF CopyAhead
  <2> QED BY <1>3, <2>1, <2>2, <2>5
<1>6. CASE ShareNext(r)
  <2>1. Sharing(r) /\ CopyAhead(r)'
    BY <1>1, <1>6, ShareNextAhead DEF ShareNext, Sharing
  <2>2. /\ UNCHANGED <<store, stage>>
        /\ \A q \in Request : q # r => scratch'[q] = scratch[q] /\ fresh'[q] = fresh[q]
    BY <1>1, <1>6 DEF ShareNext
  <2> QED BY <1>3, <2>1, <2>2
<1>7. CASE Persist(r)
  <2>1. Sharing(r) /\ stage' = [stage EXCEPT ![r] = "redact"] /\ UNCHANGED <<scratch, fresh>>
    BY <1>7 DEF Persist, Goto, Sharing
  <2>2. /\ Distinct(store'[SessionOf[r]]) /\ Owned(store'[SessionOf[r]])
        /\ \A s \in Session : s # SessionOf[r] => store'[s] = store[s]
    BY <1>7, <2>1, PersistPaired
  <2> QED BY <1>2, <1>4, <2>1, <2>2, PairedWrite
<1>8. CASE \/ Begin(r) \/ Skip(r) \/ Resolve(r) \/ ResolveFails(r) \/ Analyze(r) \/ StoreFails(r)
           \/ Redact(r) \/ RedactFails(r)
  <2>1. UNCHANGED <<store, scratch, fresh>>
    BY <1>8 DEF Begin, Skip, Resolve, ResolveFails, Analyze, StoreFails, Redact, RedactFails, Fail
  <2>2. \E label \in Stages \ {"assign"} : stage' = [stage EXCEPT ![r] = label]
    BY <1>8 DEF Begin, Skip, Resolve, ResolveFails, Analyze, StoreFails, Redact, RedactFails,
       Fail, Goto, Emit, Stages
  <2> QED BY <1>3, <1>4, <2>1, <2>2
<1> QED BY <1>5, <1>6, <1>7, <1>8 DEF ImageStep

\* Names and pseudonyms stay paired off, whatever fails.
LEMMA NextPaired ==
  ASSUME PseudonymsApart, NEW order \in [Request -> Nat], InTurn(order), EarlierOver(order),
         ServerInv, PairedOff, [ServerNext]_vars
  PROVE  PairedOff'
<1>1. TypeOK /\ ImageInv
  BY DEF ServerInv, ServerTypeOK
<1>2. ASSUME NEW r \in Request, HandlerStep(r) PROVE PairedOff'
  <2>1. CASE HandleImages(r)
    BY <1>1, <2>1, ImageStepPaired DEF HandleImages, callVars
  <2>2. CASE RewriteText(r)
    BY <1>1, <2>2, RewriteTextPaired
  <2>3. CASE ~ HandleImages(r) /\ ~ RewriteText(r)
    <3>1. UNCHANGED imageVars
      BY <1>2, <2>3 DEF HandlerStep, Accept, Refuse, TextFails, TextsDone, Respond, Forward,
         GiveUp, ModelAnswers, AcceptBack, RefuseBack, ReverseText, ReverseUnavailable,
         RespondBack, Deliver
    <3>2. \/ UNCHANGED pc
          \/ Accept(r) /\ To(r, "texts") /\ pc[r] = "new"
          \/ TextsDone(r) /\ To(r, "images") /\ pc[r] = "texts"
          \/ \E label \in Phases \ {"new", "texts", "images"} : To(r, label)
      BY <1>2, <2>3 DEF HandlerStep, Accept, Refuse, TextFails, TextsDone, Respond, Forward,
         GiveUp, ModelAnswers, AcceptBack, RefuseBack, ReverseText, ReverseUnavailable,
         RespondBack, Deliver, ReplyWith, Phases
    <3>3. ASSUME NEW label \in Phases, To(r, label), NEW q \in Request
          PROVE  pc'[q] = IF q = r THEN label ELSE pc[q]
      BY <1>1, <3>3, ToFacts
    <3>4. \A q \in Request :
            /\ pc'[q] \in {"new", "texts"} => pc[q] \in {"new", "texts"}
            /\ pc'[q] = "images" => pc[q] \in {"texts", "images"}
      BY <3>2, <3>3 DEF Phases
    <3> QED BY <3>1, <3>4, PairedStay DEF imageVars
  <2> QED BY <2>1, <2>2, <2>3
<1>3. ASSUME NEW requests \in SUBSET Request, CutOff(requests) PROVE PairedOff'
  <2>1. \A q \in Request : pc'[q] = pc[q] \/ pc'[q] \in {"back", "replied"}
    BY <1>1, <1>3, CutOffFacts
  <2>2. UNCHANGED imageVars
    BY <1>3 DEF CutOff
  <2> QED BY <2>1, <2>2, PairedStay DEF imageVars
<1>4. CASE UNCHANGED handlerVars
  BY <1>4, PairedStay DEF handlerVars, imageVars, callVars
<1> QED BY <1>2, <1>3, <1>4, StepKinds

-----------------------------------------------------------------------------
(* Each name on its way to the model and back. *)

\* What the model is sent for a name: the name, or what a spelling of it is
\* mapped to.
Sent(name, said, m) ==
  said = name \/ (name # NoName /\ \E k \in Keys(m) : m[k] = said /\ Fold[k] = Fold[name])

\* What the client gets back for a name: the name in some spelling.
Back(name, given) == given = name \/ (given # NoName /\ Fold[given] = Fold[name])

\* What the texts of a list are, or were before the model answered.
SentFor(r, list) ==
  /\ Len(list) <= Len(TextsOf[r])
  /\ \A i \in 1..Len(list) : Sent(TextsOf[r][i], list[i], store[SessionOf[r]])

\* What the texts of an answer are restored to.
BackFor(r, list) == \A i \in 1..Len(list) : Back(TextsOf[r][i], list[i])

\* The gateway makes use of the reply.
Answered(r) == reply[r].status = 200 /\ reply[r].action # "BLOCKED"

\* At each phase of a call: what is on its way to the model can be restored, and
\* what is on its way back is.
Restorable(r) ==
  /\ pc[r] \in {"new", "answered"} => texts[r] = << >>
  /\ pc[r] # "over" => got[r] = << >>
  /\ pc[r] \in {"texts", "images"} => SentFor(r, texts[r])
  /\ pc[r] = "replied" /\ Answered(r) => SentFor(r, Substitute(reply[r].texts, TextsOf[r]))
  /\ pc[r] = "model" => SentFor(r, sentTexts[r])
  /\ pc[r] \in {"answered", "reversing", "back"} => SentFor(r, answer[r])
  /\ pc[r] = "reversing" => Len(texts[r]) <= Len(answer[r]) /\ BackFor(r, texts[r])
  /\ pc[r] = "back" /\ Answered(r) /\ ~lapsed[r] =>
       BackFor(r, Substitute(reply[r].texts, answer[r]))
  /\ pc[r] = "over" /\ ~lapsed[r] => BackFor(r, got[r])

\* A pseudonym is restored to the name it stands for, and a name that was sent
\* as it is stays what it is.
LEMMA ComesBack ==
  ASSUME NEW m \in Mappings, Distinct(m), Owned(m), NEW name \in Mention,
         name # NoName => \A kind \in Kind : \A p \in PseudonymsOf(kind) :
                            \A a \in Given(kind, p) : Fold[a] # Fold[name],
         NEW said, Sent(name, said, m),
         NEW reals, reals = IF said = NoName THEN {} ELSE Inverse(m, said),
         NEW given \in IF reals = {} THEN {said} ELSE reals
  PROVE  given \in Mention /\ Back(name, given)
<1>1. CASE said = NoName
  <2>1. name = NoName
    BY <1>1 DEF Sent, Keys
  <2> QED BY <1>1, <2>1 DEF Back, Mention
<1>2. CASE said # NoName /\ said = name
  <2>1. ASSUME NEW k \in Keys(m), Fold[m[k]] = Fold[name] PROVE FALSE
    <3>1. PICK kind \in Kind : \E p \in PseudonymsOf(kind) :
            p \in Used(m) /\ m[k] \in Given(kind, p)
      BY DEF Owned
    <3> QED BY <1>2, <2>1, <3>1
  <2>2. reals = {}
    BY <1>2, <2>1 DEF Inverse
  <2> QED BY <1>2, <2>2 DEF Back, Mention
<1>3. CASE said # NoName /\ said # name
  <2>1. PICK k \in Keys(m) : m[k] = said /\ Fold[k] = Fold[name]
    BY <1>3 DEF Sent
  <2>2. k \in reals
    BY <1>3, <2>1 DEF Inverse
  <2>3. given \in Keys(m) /\ Fold[m[given]] = Fold[said]
    BY <1>3, <2>2 DEF Inverse
  <2>4. given = k
    BY <2>1, <2>3 DEF Distinct
  <2>5. given \in Name /\ given # NoName
    BY <2>3, NoNameAssumption DEF Keys
  <2> QED BY <2>1, <2>4, <2>5 DEF Back, Mention
<1> QED BY <1>1, <1>2, <1>3

\* What was sent can be restored while the store grows.
LEMMA SentGrows ==
  ASSUME NEW r \in Request, NEW list, SentFor(r, list), Grows
  PROVE  /\ Len(list) <= Len(TextsOf[r])
         /\ \A i \in 1..Len(list) : Sent(TextsOf[r][i], list[i], store'[SessionOf[r]])
<1> DEFINE m == store[SessionOf[r]]
           w == store'[SessionOf[r]]
<1>1. \A k \in Keys(m) : k \in Keys(w) /\ w[k] = m[k]
  BY RequestAssumption DEF Grows, Keys
<1>2. \A name, said : Sent(name, said, m) => Sent(name, said, w)
  BY <1>1 DEF Sent
<1> QED BY <1>2 DEF SentFor

\* The texts of the request itself are such a list, and so is what the gateway
\* makes of a reply.
LEMMA SentUnchanged ==
  ASSUME NEW r \in Request, NEW list \in Seq(Mention), SentFor(r, list)
  PROVE  SentFor(r, Substitute(list, TextsOf[r]))
<1>1. Len(TextsOf[r]) \in Nat
  BY SequencesOfCall
<1>2. SentFor(r, TextsOf[r])
  BY <1>1 DEF SentFor, Sent
<1> QED BY <1>2 DEF Substitute

\* Without a text there is nothing to restore.
LEMMA NothingSent ==
  ASSUME NEW r \in Request
  PROVE  /\ Len(<< >>) = 0 /\ SentFor(r, << >>) /\ BackFor(r, << >>)
<1>1. Len(<< >>) = 0 /\ Len(TextsOf[r]) \in Nat /\ 1..0 = {}
  BY SequencesOfCall
<1> QED BY <1>1 DEF SentFor, BackFor

-----------------------------------------------------------------------------
(* The steps of a call. *)

\* A call that is left alone.
LEMMA RestorableAlone ==
  ASSUME NEW q \in Request, Restorable(q), Grows,
         pc'[q] = pc[q], texts'[q] = texts[q], reply'[q] = reply[q], got'[q] = got[q],
         sentTexts'[q] = sentTexts[q], answer'[q] = answer[q], lapsed'[q] = lapsed[q]
  PROVE  Restorable(q)'
<1>1. \A list : SentFor(q, list) => SentFor(q, list)'
  BY SentGrows DEF SentFor
<1> QED BY <1>1 DEF Restorable, Answered, BackFor

\* A reply the gateway makes no use of.
LEMMA RestorableRefused ==
  ASSUME NEW r \in Request, Restorable(r), Grows, pc[r] # "over", got'[r] = got[r],
         ~Answered(r)',
         \/ pc'[r] = "replied"
         \/ /\ pc'[r] = "back" /\ answer'[r] = answer[r]
            /\ pc[r] \in {"answered", "reversing", "back"}
  PROVE  Restorable(r)'
<1>1. \A list : SentFor(r, list) => SentFor(r, list)'
  BY SentGrows DEF SentFor
<1> QED BY <1>1 DEF Restorable

\* A text that is appended to those sent (Pseudonymize).
LEMMA RewriteTextRestorable ==
  ASSUME TypeOK, ImageInv, NEW r \in Request, Restorable(r), Grows, RewriteText(r)
  PROVE  Restorable(r)'
<1> DEFINE s == SessionOf[r]
           name == CurrentText(r)
           n == Len(texts[r])
<1>1. /\ pc[r] = "texts" /\ n < Len(TextsOf[r]) /\ name = TextsOf[r][n + 1]
      /\ UNCHANGED <<pc, reply, sentTexts, answer, got, lapsed>>
      /\ SentFor(r, texts[r])
  BY DEF RewriteText, InTexts, CurrentText, Restorable
<1>2. /\ s \in Session /\ store \in [Session -> Mappings] /\ store[s] \in Mappings
      /\ n \in Nat /\ Len(TextsOf[r]) \in Nat /\ name \in Mention
  <2>1. s \in Session /\ store \in [Session -> Mappings] /\ store[s] \in Mappings
    BY RequestAssumption, CallAssumption, CallTypes DEF ImageTypeOK
  <2>2. n \in Nat /\ Len(TextsOf[r]) \in Nat
    BY CallTypes, SequencesOfCall
  <2>3. n + 1 \in 1..Len(TextsOf[r])
    BY <1>1, <2>2
  <2> QED BY <1>1, <2>1, <2>2, <2>3, SequencesOfCall
<1>3. ASSUME NEW m \in Mappings PROVE Sent(name, Rewritten(name, m), m)
  <2>1. CASE name # NoName /\ HasKey(m, name)
    <3>1. KeysFor(m, name) # {}
      BY <2>1 DEF HasKey
    <3>2. PICK k \in KeysFor(m, name) : Rewritten(name, m) = m[k]
      BY <2>1, <3>1 DEF Rewritten
    <3> QED BY <2>1, <3>2 DEF Sent, KeysFor
  <2>2. CASE ~ (name # NoName /\ HasKey(m, name))
    BY <2>2 DEF Rewritten, Sent
  <2> QED BY <2>1, <2>2
<1>4. PICK m \in Mappings :
        /\ store'[s] = m
        /\ texts' = [texts EXCEPT ![r] = Append(texts[r], Rewritten(name, m))]
  <2>1. CASE UNCHANGED store /\ texts' = [texts EXCEPT ![r] =
                                            Append(texts[r], Rewritten(name, store[s]))]
    BY <1>2, <2>1
  <2>2. ASSUME name # NoName,
               \E p \in Assign(Person, name, store[s], Occurring(name)) :
                 LET m == Merge(store[s], Entries(Person, name, p, store[s]))
                 IN  /\ store' = [store EXCEPT ![s] = m]
                     /\ texts' = [texts EXCEPT ![r] = Append(@, Rewritten(name, m))]
        PROVE  \E w \in Mappings :
                 /\ store'[s] = w
                 /\ texts' = [texts EXCEPT ![r] = Append(texts[r], Rewritten(name, w))]
    <3>1. name \in Name
      BY <1>2, <2>2 DEF Mention
    <3>2. PICK p \in Assign(Person, name, store[s], Occurring(name)) :
             LET m == Merge(store[s], Entries(Person, name, p, store[s]))
             IN  /\ store' = [store EXCEPT ![s] = m]
                 /\ texts' = [texts EXCEPT ![r] = Append(@, Rewritten(name, m))]
      BY <2>2
    <3> DEFINE m == Merge(store[s], Entries(Person, name, p, store[s]))
    <3>3. /\ store' = [store EXCEPT ![s] = m]
          /\ texts' = [texts EXCEPT ![r] = Append(texts[r], Rewritten(name, m))]
      BY <3>2
    <3>4. m \in Mappings /\ store' \in [Session -> Mappings]
      BY <3>1, <3>3, NewNameFacts
    <3>5. store'[s] = m
      <4> HIDE DEF m, s
      <4> QED BY <1>2, <3>3
    <3> HIDE DEF name, s, m
    <3> QED BY <3>3, <3>4, <3>5
  <2> QED BY <2>1, <2>2 DEF RewriteText
<1> DEFINE said == Rewritten(name, m)
<1>5. said \in Mention /\ Sent(name, said, m)
  BY <1>2, <1>3, RewrittenIsMention
<1> HIDE DEF said
<1>6. /\ Len(texts'[r]) = n + 1 /\ texts'[r][n + 1] = said
      /\ \A i \in 1..n : texts'[r][i] = texts[r][i]
  BY <1>4, <1>5, TextFacts DEF said
<1>7. \A i \in 1..n : Sent(TextsOf[r][i], texts[r][i], store'[s])
  BY <1>1, SentGrows
<1> HIDE DEF n, name, s
<1>8. \A i \in 1..(n + 1) : Sent(TextsOf[r][i], texts'[r][i], store'[s])
  <2> TAKE i \in 1..(n + 1)
  <2>1. CASE i \in 1..n
    BY <1>6, <1>7, <2>1
  <2>2. CASE i = n + 1
    BY <1>1, <1>4, <1>5, <1>6, <2>2
  <2> QED BY <1>2, <2>1, <2>2
<1>9. n + 1 <= Len(TextsOf[r])
  BY <1>1, <1>2
<1>10. SentFor(r, texts[r])'
  BY <1>6, <1>8, <1>9 DEF SentFor, s
<1> QED BY <1>1, <1>10 DEF Restorable

\* A finished pre-call request is answered with the texts, if any has changed.
LEMMA RespondRestorable ==
  ASSUME TypeOK, ImageInv, NEW r \in Request, Restorable(r), Grows, Respond(r)
  PROVE  Restorable(r)'
<1>1. /\ pc[r] = "images" /\ Ended(r) /\ ReplyWith(r, "replied", Outcome(r))
      /\ got' = got /\ "replied" \in Phases /\ Outcome(r) \in Reply
  BY OutcomeFacts DEF Respond, Phases
<1>2. reply'[r] = Outcome(r) /\ pc'[r] = "replied"
  BY <1>1, ReplyFacts
<1>3. CASE Outcome(r).status # 200 \/ Outcome(r).action = "BLOCKED"
  BY <1>1, <1>2, <1>3, RestorableRefused DEF Answered
<1>4. CASE ~ (Outcome(r).status # 200 \/ Outcome(r).action = "BLOCKED")
  <2>1. Outcome(r).texts = IF Differs(texts[r], TextsOf[r]) THEN texts[r] ELSE << >>
    BY <1>1, <1>4, OutcomeFacts
  <2>2. SentFor(r, texts[r]) /\ texts[r] \in Seq(Mention) /\ << >> \in Seq(Mention)
    BY <1>1, CallTypes DEF Restorable
  <2>3. SentFor(r, Substitute(Outcome(r).texts, TextsOf[r]))
    BY <2>1, <2>2, NothingSent, SentUnchanged
  <2>4. SentFor(r, Substitute(reply[r].texts, TextsOf[r]))'
    BY <1>2, <2>3, SentGrows DEF SentFor, Substitute
  <2> QED BY <1>1, <1>2, <2>4 DEF Restorable
<1> QED BY <1>3, <1>4

\* The gateway sends what the reply has in place of the request's own.
LEMMA ForwardRestorable ==
  ASSUME TypeOK, NEW r \in Request, Restorable(r), Grows, Forward(r)
  PROVE  Restorable(r)'
<1>1. /\ pc[r] = "replied" /\ Answered(r) /\ To(r, "model") /\ got' = got
      /\ sentTexts' = [sentTexts EXCEPT ![r] = Substitute(reply[r].texts, TextsOf[r])]
  BY DEF Forward, Answered
<1>2. pc'[r] = "model"
  BY <1>1, ToFacts DEF Phases
<1>3. sentTexts'[r] = Substitute(reply[r].texts, TextsOf[r])
  BY <1>1, CallTypes
<1>4. SentFor(r, sentTexts[r])'
  BY <1>1, <1>3, SentGrows DEF Restorable, SentFor
<1> QED BY <1>1, <1>2, <1>4 DEF Restorable

\* The model repeats what it was sent.
LEMMA ModelAnswersRestorable ==
  ASSUME TypeOK, NEW r \in Request, Restorable(r), Grows, ModelAnswers(r)
  PROVE  Restorable(r)'
<1>1. /\ pc[r] = "model" /\ To(r, "answered") /\ got' = got
      /\ answer' = [answer EXCEPT ![r] = sentTexts[r]]
      /\ texts' = [texts EXCEPT ![r] = << >>]
  BY DEF ModelAnswers
<1>2. pc'[r] = "answered"
  BY <1>1, ToFacts DEF Phases
<1>3. answer'[r] = sentTexts[r] /\ texts'[r] = << >>
  BY <1>1, CallTypes
<1>4. SentFor(r, answer[r])'
  BY <1>1, <1>3, SentGrows DEF Restorable, SentFor
<1> QED BY <1>1, <1>2, <1>3, <1>4 DEF Restorable

\* Requests that are refused or fail, and the next phase of a pre-call request.
LEMMA PreCallRestorable ==
  ASSUME TypeOK, NEW r \in Request, Restorable(r), Grows,
         Accept(r) \/ Refuse(r) \/ TextFails(r) \/ TextsDone(r) \/ GiveUp(r)
  PROVE  Restorable(r)'
<1>1. CASE Refuse(r) \/ TextFails(r)
  <2>1. \E response \in Reply :
          /\ ReplyWith(r, "replied", response)
          /\ response.status # 200 \/ response.action = "BLOCKED"
    <3>1. CASE Refuse(r)
      <4>1. PICK quirk \in PreQuirk \ {"none"} : ReplyWith(r, "replied", Refusal(quirk))
        BY <3>1 DEF Refuse
      <4>2. quirk \in Quirk \ {"none"}
        BY CallAssumption
      <4> QED BY <4>1, <4>2, RefusalIsReply
    <3>2. CASE TextFails(r)
      <4>1. PICK error : ReplyWith(r, "replied", Error(Status(error)))
        BY <3>2 DEF TextFails
      <4> QED BY <4>1, MappedIsReply
    <3> QED BY <1>1, <3>1, <3>2
  <2>2. got' = got /\ pc[r] # "over"
    BY <1>1 DEF Refuse, TextFails, InTexts
  <2>3. pc'[r] = "replied" /\ ~Answered(r)'
    BY <2>1, ReplyFacts DEF Phases, Answered
  <2> QED BY <2>2, <2>3, RestorableRefused
<1>2. CASE Accept(r)
  <2>1. /\ pc[r] = "new" /\ To(r, "texts") /\ texts[r] = << >>
        /\ UNCHANGED <<texts, got>>
    BY <1>2 DEF Accept, Restorable
  <2>2. pc'[r] = "texts" /\ SentFor(r, texts[r])
    BY <2>1, ToFacts, NothingSent DEF Phases
  <2>3. SentFor(r, texts[r])'
    BY <2>1, <2>2, SentGrows DEF SentFor
  <2> QED BY <2>1, <2>2, <2>3 DEF Restorable
<1>3. CASE TextsDone(r)
  <2>1. pc[r] = "texts" /\ To(r, "images") /\ UNCHANGED <<texts, got>>
    BY <1>3 DEF TextsDone
  <2>2. pc'[r] = "images" /\ SentFor(r, texts[r])
    BY <2>1, ToFacts DEF Phases, Restorable
  <2>3. SentFor(r, texts[r])'
    BY <2>1, <2>2, SentGrows DEF SentFor
  <2> QED BY <2>1, <2>2, <2>3 DEF Restorable
<1>4. CASE GiveUp(r)
  <2>1. pc[r] = "replied" /\ To(r, "over") /\ got' = got /\ got[r] = << >>
    BY <1>4 DEF GiveUp, Restorable
  <2>2. pc'[r] = "over" /\ BackFor(r, got[r])
    BY <2>1, ToFacts, NothingSent DEF Phases
  <2> QED BY <2>1, <2>2 DEF Restorable, BackFor
<1> QED BY <1>1, <1>2, <1>3, <1>4

\* The beginning of a post-call request, and its refusal.
LEMMA AnswerComesRestorable ==
  ASSUME TypeOK, NEW r \in Request, Restorable(r), Grows, AcceptBack(r) \/ RefuseBack(r)
  PROVE  Restorable(r)'
<1>1. /\ pc[r] = "answered" /\ texts[r] = << >> /\ SentFor(r, answer[r])
      /\ UNCHANGED <<texts, answer, got>>
  BY DEF AcceptBack, RefuseBack, Restorable
<1>2. CASE AcceptBack(r)
  <2>1. pc'[r] = "reversing"
    BY <1>2, ToFacts DEF AcceptBack, Phases
  <2>2. SentFor(r, answer[r])'
    BY <1>1, SentGrows DEF SentFor
  <2>3. Len(answer[r]) \in Nat
    BY CallTypes
  <2>4. Len(texts'[r]) <= Len(answer'[r]) /\ BackFor(r, texts'[r])
    BY <1>1, <2>3, NothingSent
  <2>5. BackFor(r, texts[r])'
    BY <2>4 DEF BackFor
  <2> QED BY <1>1, <2>1, <2>2, <2>4, <2>5 DEF Restorable
<1>3. CASE RefuseBack(r)
  <2>1. PICK quirk \in PostQuirk \ {"none"} : ReplyWith(r, "back", Refusal(quirk))
    BY <1>3 DEF RefuseBack
  <2>2. quirk \in Quirk \ {"none"}
    BY CallAssumption
  <2>3. pc'[r] = "back" /\ ~Answered(r)'
    BY <2>1, <2>2, RefusalIsReply, ReplyFacts DEF Phases, Answered
  <2> QED BY <1>1, <2>3, RestorableRefused
<1> QED BY <1>2, <1>3

\* A text of the answer is restored, from the mapping it was sent with (Reverse).
LEMMA ReverseTextRestorable ==
  ASSUME SameSession, NoPseudonymSent, TypeOK, ImageInv, PairedOff,
         NEW r \in Request, Restorable(r), ReverseText(r)
  PROVE  Restorable(r)'
<1> DEFINE s == SessionOf[r]
           n == Len(texts[r])
           said == answer[r][n + 1]
           reals == IF said = NoName THEN {} ELSE Inverse(store[s], said)
<1>1. /\ pc[r] = "reversing" /\ n < Len(answer[r])
      /\ UNCHANGED <<store, pc, answer, got>>
      /\ \E given \in IF reals = {} THEN {said} ELSE reals :
           texts' = [texts EXCEPT ![r] = Append(@, given)]
      /\ SentFor(r, answer[r]) /\ BackFor(r, texts[r])
  BY DEF ReverseText, InAnswer, imageVars, SameSession, Restorable
<1>2. /\ store[s] \in Mappings /\ Distinct(store[s]) /\ Owned(store[s])
      /\ n \in Nat /\ Len(answer[r]) \in Nat /\ texts[r] \in Seq(Mention)
  <2>1. s \in Session /\ store[s] \in Mappings
    BY RequestAssumption, CallTypes DEF ImageTypeOK
  <2>2. texts[r] \in Seq(Mention) /\ answer[r] \in Seq(Mention)
    BY CallTypes
  <2> QED BY <2>1, <2>2 DEF PairedOff
<1> DEFINE name == TextsOf[r][n + 1]
<1>3. /\ Sent(name, said, store[s]) /\ name \in Mention /\ n + 1 \in DOMAIN TextsOf[r]
  <2>1. /\ Len(TextsOf[r]) \in Nat /\ Len(answer[r]) <= Len(TextsOf[r])
        /\ DOMAIN TextsOf[r] = 1..Len(TextsOf[r])
        /\ \A i \in 1..Len(TextsOf[r]) : TextsOf[r][i] \in Mention
    BY <1>1, SequencesOfCall DEF SentFor
  <2> HIDE DEF n
  <2>2. n + 1 \in 1..Len(answer[r]) /\ n + 1 \in 1..Len(TextsOf[r])
    BY <1>1, <1>2, <2>1
  <2>3. Sent(name, said, store[s])
    BY <1>1, <2>2 DEF SentFor
  <2> QED BY <2>1, <2>2, <2>3
<1>4. name # NoName => \A kind \in Kind : \A p \in PseudonymsOf(kind) :
                         \A a \in Given(kind, p) : Fold[a] # Fold[name]
  BY <1>3 DEF NoPseudonymSent
<1> HIDE DEF name
<1>5. PICK given \in IF reals = {} THEN {said} ELSE reals :
        texts' = [texts EXCEPT ![r] = Append(texts[r], given)]
  BY <1>1, CallTypes
<1> HIDE DEF said
<1>6. given \in Mention /\ Back(name, given)
  BY <1>2, <1>3, <1>4, ComesBack
<1> HIDE DEF reals
<1>7. /\ Len(texts'[r]) = n + 1 /\ texts'[r][n + 1] = given
      /\ \A i \in 1..n : texts'[r][i] = texts[r][i]
  BY <1>5, <1>6, TextFacts
<1> HIDE DEF n
<1>8. \A i \in 1..n : Back(TextsOf[r][i], texts[r][i])
  BY <1>1 DEF BackFor, n
<1>9. \A i \in 1..(n + 1) : Back(TextsOf[r][i], texts'[r][i])
  <2> TAKE i \in 1..(n + 1)
  <2>1. CASE i \in 1..n
    BY <1>7, <1>8, <2>1
  <2>2. CASE i = n + 1
    BY <1>6, <1>7, <2>2 DEF name
  <2> QED BY <1>2, <2>1, <2>2
<1>10. Len(texts'[r]) <= Len(answer'[r]) /\ BackFor(r, texts[r])'
  BY <1>1, <1>2, <1>7, <1>9 DEF BackFor
<1>11. SentFor(r, answer[r])'
  BY <1>1 DEF SentFor
<1> QED BY <1>1, <1>10, <1>11 DEF Restorable

\* The reply to a post-call request restores the answer, or says that nothing is
\* to be restored (handleResponse).
LEMMA RespondBackRestorable ==
  ASSUME TypeOK, NEW r \in Request, Restorable(r), Grows,
         RespondBack(r) \/ ReverseUnavailable(r)
  PROVE  Restorable(r)'
<1>1. /\ pc[r] = "reversing" /\ answer' = answer /\ got' = got /\ got[r] = << >>
      /\ SentFor(r, answer[r]) /\ BackFor(r, texts[r])
  BY DEF RespondBack, ReverseUnavailable, InAnswer, Restorable
<1>2. SentFor(r, answer[r])'
  BY <1>1, SentGrows DEF SentFor
<1>3. "back" \in Phases
  BY DEF Phases
<1>4. CASE ReverseUnavailable(r)
  <2>1. ReplyWith(r, "back", Answer("NONE", << >>, << >>)) /\ lapsed'[r] = TRUE
    BY <1>4, CallTypes DEF ReverseUnavailable
  <2>2. Answer("NONE", << >>, << >>) \in Reply
    BY DEF Answer, Reply
  <2>3. pc'[r] = "back"
    BY <1>3, <2>1, <2>2, ReplyFacts
  <2> QED BY <1>1, <1>2, <2>1, <2>3 DEF Restorable
<1>5. CASE RespondBack(r)
  <2> DEFINE list == IF Differs(texts[r], answer[r]) THEN texts[r] ELSE << >>
  <2>1. texts[r] \in Seq(Mention) /\ answer[r] \in Seq(Mention) /\ << >> \in Seq(Mention)
        /\ Len(texts[r]) = Len(answer[r])
    BY <1>5, CallTypes DEF RespondBack
  <2>2. \E response \in Reply : ReplyWith(r, "back", response) /\ response.texts = list
    <3>1. CASE Differs(texts[r], answer[r])
      <4>1. /\ ReplyWith(r, "back", Answer("GUARDRAIL_INTERVENED", texts[r], << >>))
            /\ Answer("GUARDRAIL_INTERVENED", texts[r], << >>) \in Reply
            /\ Answer("GUARDRAIL_INTERVENED", texts[r], << >>).texts = texts[r]
        BY <1>5, <2>1, <3>1 DEF RespondBack, Answer, Reply
      <4> QED BY <3>1, <4>1
    <3>2. CASE ~Differs(texts[r], answer[r])
      <4>1. /\ ReplyWith(r, "back", Answer("NONE", << >>, << >>))
            /\ Answer("NONE", << >>, << >>) \in Reply
            /\ Answer("NONE", << >>, << >>).texts = << >>
        BY <1>5, <3>2 DEF RespondBack, Answer, Reply
      <4> QED BY <3>2, <4>1
    <3> QED BY <3>1, <3>2
  <2>3. pc'[r] = "back" /\ reply'[r].texts = list
    BY <1>3, <2>2, ReplyFacts
  <2>4. BackFor(r, Substitute(list, answer[r]))
    <3>1. CASE Differs(texts[r], answer[r])
      BY <1>1, <2>1, <3>1 DEF Differs, Substitute
    <3>2. CASE ~Differs(texts[r], answer[r])
      <4>1. \A i \in 1..Len(answer[r]) : answer[r][i] = texts[r][i]
        BY <2>1, <3>2 DEF Differs
      <4>2. BackFor(r, answer[r])
        BY <1>1, <2>1, <4>1 DEF BackFor
      <4> QED BY <3>2, <4>2 DEF Substitute
    <3> QED BY <3>1, <3>2
  <2>5. BackFor(r, Substitute(reply[r].texts, answer[r]))'
    BY <1>1, <2>3, <2>4 DEF BackFor, Substitute
  <2> QED BY <1>1, <1>2, <2>3, <2>5 DEF Restorable
<1> QED BY <1>4, <1>5

\* The answer is handed on as the reply says.
LEMMA DeliverRestorable ==
  ASSUME TypeOK, NEW r \in Request, Restorable(r), Deliver(r)
  PROVE  Restorable(r)'
<1>1. /\ pc[r] = "back" /\ To(r, "over") /\ lapsed' = lapsed
      /\ got' = [got EXCEPT ![r] = IF Answered(r) THEN Substitute(reply[r].texts, answer[r])
                                   ELSE << >>]
  BY DEF Deliver, Answered
<1>2. pc'[r] = "over"
  BY <1>1, ToFacts DEF Phases
<1>3. got'[r] = IF Answered(r) THEN Substitute(reply[r].texts, answer[r]) ELSE << >>
  BY <1>1, CallTypes
<1>4. ~lapsed[r] => BackFor(r, got'[r])
  BY <1>1, <1>3, NothingSent DEF Restorable
<1>5. ~lapsed[r] => BackFor(r, got[r])'
  BY <1>4 DEF BackFor
<1> QED BY <1>1, <1>2, <1>5 DEF Restorable

\* A connection that is lost brings nothing back.
LEMMA CutOffRestorable ==
  ASSUME TypeOK, ImageInv, NEW requests \in SUBSET Request, CutOff(requests), Open(requests),
         NEW r \in Request, Restorable(r)
  PROVE  Restorable(r)'
<1>1. Grows /\ UNCHANGED <<texts, sentTexts, answer, got, lapsed>>
  BY CutOffFacts DEF CutOff
<1>2. CASE r \notin requests
  <2>1. pc'[r] = pc[r] /\ reply'[r] = reply[r]
    BY <1>2, CutOffFacts
  <2> QED BY <1>1, <2>1, RestorableAlone
<1>3. CASE r \in requests
  <2>1. /\ reply'[r].status = 0 /\ pc[r] # "over"
        /\ pc'[r] = IF pc[r] \in {"answered", "reversing", "back"} THEN "back" ELSE "replied"
    BY <1>3, CutOffFacts DEF Open
  <2>2. ~Answered(r)'
    BY <2>1 DEF Answered
  <2> QED BY <1>1, <2>1, <2>2, RestorableRefused
<1> QED BY <1>2, <1>3

-----------------------------------------------------------------------------
(* The theorem. *)

RestoreInv(order) ==
  /\ ServerInv
  /\ EarlierOver(order)
  /\ PairedOff
  /\ \A r \in Request : Restorable(r)

\* Every step keeps what is on its way restorable.
LEMMA NextRestorable ==
  ASSUME PseudonymsApart, SameSession, NoPseudonymSent,
         NEW order \in [Request -> Nat], InTurn(order)
  PROVE  RestoreInv(order) /\ [ServerNext]_vars => RestoreInv(order)'
<1> SUFFICES ASSUME RestoreInv(order), [ServerNext]_vars PROVE RestoreInv(order)'
  OBVIOUS
<1>1. /\ ServerInv /\ EarlierOver(order) /\ PairedOff /\ TypeOK /\ ImageInv
      /\ \A r \in Request : Restorable(r)
  BY DEF RestoreInv, ServerInv, ServerTypeOK
<1>2. ServerInv' /\ EarlierOver(order)' /\ PairedOff'
  BY <1>1, NextServerInv, NextEarlierOver, NextPaired
<1>3. ASSUME NEW r \in Request, HandlerStep(r), NEW q \in Request PROVE Restorable(q)'
  <2>1. Grows /\ Alone(r) /\ Restorable(r) /\ Restorable(q)
    BY <1>1, <1>3, CallSteady DEF Steady
  <2>2. CASE q # r
    BY <2>1, <2>2, RestorableAlone DEF Alone
  <2>3. CASE q = r
    <3>1. HandleImages(r) => Restorable(r)'
      BY <2>1, RestorableAlone DEF HandleImages, callVars
    <3>2. Restorable(r)'
      BY <1>1, <1>3, <2>1, <3>1, RewriteTextRestorable, RespondRestorable, ForwardRestorable,
         ModelAnswersRestorable, PreCallRestorable, AnswerComesRestorable,
         ReverseTextRestorable, RespondBackRestorable, DeliverRestorable DEF HandlerStep
    <3> QED BY <2>3, <3>2
  <2> QED BY <2>2, <2>3
<1>4. ASSUME NEW requests \in SUBSET Request, CutOff(requests), Open(requests), NEW q \in Request
      PROVE  Restorable(q)'
  BY <1>1, <1>4, CutOffRestorable
<1>5. ASSUME UNCHANGED handlerVars, NEW q \in Request PROVE Restorable(q)'
  <2>1. Grows
    BY <1>5 DEF handlerVars, imageVars, Grows
  <2> QED BY <1>1, <1>5, <2>1, RestorableAlone DEF handlerVars, callVars
<1>6. \A q \in Request : Restorable(q)'
  BY <1>3, <1>4, <1>5, StepKinds
<1> QED BY <1>2, <1>6 DEF RestoreInv

\* The client gets the names of its prompt back, at their places: for every
\* number of calls, sessions, texts and images, although every service may fail
\* and the process stop at any step, as long as the calls of a session wait for
\* one another, a post-call request identifies the session of its pre-call request
\* and no prompt mentions a configured pseudonym (handleResponse, Reverse).
THEOREM NamesComeBack ==
  ASSUME PseudonymsApart, SameSession, NoPseudonymSent,
         NEW order \in [Request -> Nat], InTurn(order)
  PROVE  ServerSpec => []NamesRestored
<1>1. ServerInit => RestoreInv(order)
  <2> SUFFICES ASSUME ServerInit PROVE RestoreInv(order)
    OBVIOUS
  <2>1. ServerInv
    BY InitServerInv
  <2>2. \A q \in Request : pc[q] = "new" /\ texts[q] = << >> /\ got[q] = << >> /\ stage[q] = "off"
    BY DEF ServerInit, Init, ImageInit
  <2>3. \A s \in Session : store[s] = Empty
    BY DEF ServerInit, Init, ImageInit
  <2>4. EarlierOver(order)
    BY <2>2 DEF EarlierOver
  <2>5. Distinct(Empty) /\ Owned(Empty)
    BY EmptyOwned
  <2>6. PairedOff
    BY <2>2, <2>3, <2>5 DEF PairedOff, CopyAhead, Sharing
  <2>7. \A q \in Request : Restorable(q)
    BY <2>2 DEF Restorable
  <2> QED BY <2>1, <2>4, <2>6, <2>7 DEF RestoreInv
<1>2. RestoreInv(order) => NamesRestored
  <2> SUFFICES ASSUME RestoreInv(order), NEW r \in Request, pc[r] = "over", ~lapsed[r],
                      NEW i \in DOMAIN got[r]
               PROVE  \/ got[r][i] = TextsOf[r][i]
                      \/ got[r][i] # NoName /\ Fold[got[r][i]] = Fold[TextsOf[r][i]]
    BY DEF NamesRestored
  <2>1. BackFor(r, got[r]) /\ TypeOK
    BY DEF RestoreInv, Restorable, ServerInv, ServerTypeOK
  <2>2. got[r] \in Seq(Mention)
    BY <2>1, CallTypes
  <2> QED BY <2>1, <2>2 DEF BackFor, Back
<1> QED BY <1>1, <1>2, NextRestorable, PTL DEF ServerSpec
=============================================================================
