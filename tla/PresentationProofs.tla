------------------------- MODULE PresentationProofs -------------------------
(***************************************************************************)
(* Proofs about the Presentation module, for every page, language, agent,  *)
(* outbox, clock and number of events: the rows on screen are those of the *)
(* state, and everything is shown once and in its place.                   *)
(*                                                                         *)
(* JavaScript hands out identities and never hands out one twice. The      *)
(* invariant says what each identity stands for: object maps that of an    *)
(* item to the item, content that of an array to the identities in it, and *)
(* records that of a pending record to the requests it holds. A cache is   *)
(* right if what it keeps with an identity was computed from what the      *)
(* identity stands for.                                                    *)
(*                                                                         *)
(* The second half is about the rows: sorting puts each additional row at  *)
(* its rank, the merge walks a cursor over the sorted rows, and the keys   *)
(* of the rows differ whatever their kinds.                                *)
(***************************************************************************)
EXTENDS Presentation, FiniteSetTheorems, SequenceTheorems, WellFoundedInduction, TLAPS

(* An item has the fields of an item, and only a tool has images. *)
Genuine(item) ==
    /\ item = [turn |-> item.turn, id |-> item.id, role |-> item.role, text |-> item.text,
               status |-> item.status, turnStatus |-> item.turnStatus, truncated |-> item.truncated]
    /\ item.role \in Roles
    /\ item.role = "activity" => item.id \notin WithImages

(* The identities of objects that the first n events made. *)
Ids(n) == (0 .. n) \X Nat

(* An array was made from another: but for some indices it holds the same objects. *)
Derived(old, new, indices) ==
    /\ indices \subseteq DOMAIN new /\ DOMAIN old \subseteq DOMAIN new
    /\ \A i \in DOMAIN new : i \notin indices => i \in DOMAIN old /\ new[i] = old[i]

(* The identities of a state stand for what it holds. *)
Holds(object, content, records, n, s, vs, a, pv) ==
    /\ DOMAIN vs = DOMAIN s.items
    /\ \A i \in DOMAIN vs : vs[i] \in Ids(n) /\ Genuine(s.items[i]) /\ object[vs[i]] = s.items[i]
    /\ a.id \in 0 .. n /\ content[a.id] = vs
    /\ a.previous # None => a.previous \in 0 .. n /\ Derived(content[a.previous], vs, a.indices)
    /\ pv \in 0 .. n /\ records[pv] = s.pending

(* The rows projected last are those of some state with the same context. *)
Projected(object, sessionId, c) ==
    \E s, l : /\ c.context = <<sessionId, l, s.worker, s.activeTurnId>>
              /\ c.output = [i \in DOMAIN c.vers |-> timelineItem(object[c.vers[i]], s, l)]

(* A row kept with an item is its row in some state with the same key. *)
MadeFor(sessionId, item, entry) ==
    \E s, l : /\ entry.key = timelineProjectionKey(sessionId, item, s, l)
              /\ entry.value = timelineItem(item, s, l)

LastMade(sessionId, c) ==
    \E status, l : /\ c.lastKey = <<sessionId, status, l>>
                   /\ c.last = [kind |-> "work", id |-> <<"last-turn">>, status |-> status, title |-> l]

Shape(c) ==
    c = [array |-> c.array, vers |-> c.vers, output |-> c.output, context |-> c.context, entries |-> c.entries,
         pending |-> c.pending, pendingLocale |-> c.pendingLocale, pendingRows |-> c.pendingRows,
         lastKey |-> c.lastKey, last |-> c.last]

ItemsCached(object, content, n, sessionId, c) ==
    /\ c.array # None => /\ c.array \in 0 .. n /\ c.vers = content[c.array]
                         /\ \A i \in DOMAIN c.vers : c.vers[i] \in Ids(n)
                         /\ Projected(object, sessionId, c)
    /\ c.array = None => DOMAIN c.vers = {}
    /\ \A o \in DOMAIN c.entries : o \in Ids(n) /\ Genuine(object[o]) /\ MadeFor(sessionId, object[o], c.entries[o])

PendingCached(records, n, c) ==
    c.pending # None =>
        /\ c.pending \in 0 .. n
        /\ c.pendingRows = {<<q, records[c.pending][q], c.pendingLocale>> : q \in DOMAIN records[c.pending]}

Cached(object, content, records, n, sessionId, c) ==
    /\ Shape(c)
    /\ ItemsCached(object, content, n, sessionId, c)
    /\ PendingCached(records, n, c)
    /\ c.last # None => LastMade(sessionId, c)

---------------------------------------------------------------------------
(* Rows and their keys *)

(* Of a state a row depends on the worker and the active turn only.        *)
LEMMA SameContext ==
  ASSUME NEW item, NEW s, NEW z, NEW l, s.worker = z.worker, s.activeTurnId = z.activeTurnId
  PROVE  timelineItem(item, s, l) = timelineItem(item, z, l)
<1>1. Stalled(item, s) = Stalled(item, z) /\ Streaming(item, s) = Streaming(item, z)
  BY Zenon DEF Stalled, Streaming
<1>2. QED
  BY <1>1, Zenon DEF timelineItem

LEMMA PairsEqual ==
  ASSUME NEW a, NEW b, NEW c, NEW d, NEW e, NEW f, NEW g, NEW h, <<a, b, c, d>> = <<e, f, g, h>>
  PROVE  a = e /\ b = f /\ c = g /\ d = h
  OBVIOUS

(* What else than the item a row depends on is in its key.                 *)
LEMMA KeyDecides ==
  ASSUME NEW item, Genuine(item), NEW sessionId, NEW s, NEW z, NEW l, NEW m,
         timelineProjectionKey(sessionId, item, s, l) = timelineProjectionKey(sessionId, item, z, m)
  PROVE  timelineItem(item, s, l) = timelineItem(item, z, m)
<1>1. item.role \in {"user", "assistant", "plan", "activity", "tool"}
  BY DEF Genuine, Roles
<1>2. CASE item.role = "user"
  BY <1>2 DEF timelineItem
<1>3. CASE item.role = "assistant"
  <2>1. <<sessionId, Streaming(item, s)>> = <<sessionId, Streaming(item, z)>>
    BY <1>3 DEF timelineProjectionKey
  <2>2. Streaming(item, s) = Streaming(item, z)
    BY <2>1
  <2>3. QED
    BY <1>3, <2>2 DEF timelineItem
<1>4. CASE item.role \in {"plan", "activity"}
  <2>1. <<sessionId, IF item.id \in Titled THEN None ELSE l>> = <<sessionId, IF item.id \in Titled THEN None ELSE m>>
    BY <1>4 DEF timelineProjectionKey
  <2>2. item.id \notin Titled => l = m
    BY <2>1
  <2>3. Title(item, l) = Title(item, m)
    BY <2>2 DEF Title
  <2>4. CASE item.role = "plan"
    BY <2>3, <2>4 DEF timelineItem
  <2>5. CASE item.role = "activity"
    <3>1. toolData(item, l) = toolData(item, m)
      BY <2>5 DEF toolData, Genuine
    <3>2. QED
      BY <2>3, <2>5, <3>1 DEF timelineItem
  <2>6. QED
    BY <1>4, <2>4, <2>5
<1>5. CASE item.role = "tool"
  <2> DEFINE Localized(y) == item.id \notin Titled \/ Stalled(item, y) \/ Interrupted(item) \/ item.id \in WithImages
             Spoken(y, k) == IF Localized(y) THEN k ELSE None
  <2>1. <<sessionId, Spoken(s, l), Stalled(item, s), Interrupted(item)>>
           = <<sessionId, Spoken(z, m), Stalled(item, z), Interrupted(item)>>
    BY <1>5 DEF timelineProjectionKey
  <2>2. Spoken(s, l) = Spoken(z, m) /\ Stalled(item, s) = Stalled(item, z)
    <3> HIDE DEF Spoken
    <3>1. QED
      BY <2>1, PairsEqual
  <2>3. CASE Localized(s)
    <3>1. l = m
      BY <2>2, <2>3
    <3>2. QED
      BY <1>5, <2>2, <3>1, Zenon DEF timelineItem
  <2>4. CASE ~ Localized(s)
    <3>1. ~ Stalled(item, s) /\ ~ Stalled(item, z) /\ ~ Interrupted(item)
      BY <2>2, <2>4
    <3>2. Title(item, l) = Title(item, m) /\ toolData(item, l) = toolData(item, m)
      BY <2>4 DEF Title, toolData
    <3>3. QED
      BY <1>5, <3>1, <3>2 DEF timelineItem
  <2>5. QED
    BY <2>3, <2>4
<1>6. QED
  BY <1>1, <1>2, <1>3, <1>4, <1>5

---------------------------------------------------------------------------
(* ProjectItems *)

LEMMA QuadEqual ==
  ASSUME NEW a, NEW b, NEW c, NEW d, NEW e, NEW f, NEW g, NEW h, NEW q,
         q = <<a, b, c, d>>, q = <<e, f, g, h>>
  PROVE  b = f /\ c = g /\ d = h
  OBVIOUS

(* The rows of the array projected last, if the context is the same.       *)
LEMMA KeptRows ==
  ASSUME NEW object, NEW content, NEW n, NEW sessionId, NEW c, ItemsCached(object, content, n, sessionId, c),
         NEW s, NEW locale, c.context = <<sessionId, locale, s.worker, s.activeTurnId>>
  PROVE  /\ \A i \in DOMAIN c.vers : c.output[i] = timelineItem(object[c.vers[i]], s, locale)
         /\ c.array # None => c.output = [i \in DOMAIN c.vers |-> timelineItem(object[c.vers[i]], s, locale)]
<1>1. CASE c.array = None
  BY <1>1, Zenon DEF ItemsCached
<1>2. CASE c.array # None
  <2>1. PICK z, l : /\ c.context = <<sessionId, l, z.worker, z.activeTurnId>>
                    /\ c.output = [i \in DOMAIN c.vers |-> timelineItem(object[c.vers[i]], z, l)]
    BY <1>2, Zenon DEF ItemsCached, Projected
  <2>2. l = locale /\ z.worker = s.worker /\ z.activeTurnId = s.activeTurnId
    BY <2>1, QuadEqual
  <2>3. \A i \in DOMAIN c.vers : timelineItem(object[c.vers[i]], z, l) = timelineItem(object[c.vers[i]], s, locale)
    BY <2>2, SameContext
  <2>4. c.output = [i \in DOMAIN c.vers |-> timelineItem(object[c.vers[i]], s, locale)]
    BY <2>1, <2>3, Zenon
  <2>5. QED
    BY <2>4, Zenon
<1>3. QED
  BY <1>1, <1>2

(* What is known of a cache after it was used for a view.                  *)
Fresh(object, content, n, c, d, v, locale) ==
    /\ Shape(d)
    /\ ItemsCached(object, content, n, v.session, d)
    /\ d.output = DirectItems(v.stream, locale)
    /\ d.pending = c.pending /\ d.pendingLocale = c.pendingLocale /\ d.pendingRows = c.pendingRows
    /\ d.lastKey = c.lastKey /\ d.last = c.last

LEMMA FreshRows ==
  ASSUME NEW object, NEW content, NEW n \in Nat, NEW c, NEW d, NEW v, NEW locale,
         NEW records, Holds(object, content, records, n, v.stream, v.vers, v.array, v.pendingVer),
         Shape(d), d.array = v.array.id, d.vers = v.vers,
         d.context = <<v.session, locale, v.stream.worker, v.stream.activeTurnId>>,
         DOMAIN d.output = DOMAIN v.vers, d.output = [i \in DOMAIN d.output |-> d.output[i]],
         \A i \in DOMAIN v.vers : d.output[i] = timelineItem(v.stream.items[i], v.stream, locale),
         \A o \in DOMAIN d.entries : o \in Ids(n) /\ Genuine(object[o]) /\ MadeFor(v.session, object[o], d.entries[o]),
         d.pending = c.pending, d.pendingLocale = c.pendingLocale, d.pendingRows = c.pendingRows,
         d.lastKey = c.lastKey, d.last = c.last
  PROVE  Fresh(object, content, n, c, d, v, locale)
<1>1. /\ DOMAIN v.vers = DOMAIN v.stream.items
      /\ \A i \in DOMAIN v.vers : v.vers[i] \in Ids(n) /\ object[v.vers[i]] = v.stream.items[i]
      /\ v.array.id \in 0 .. n /\ content[v.array.id] = v.vers
  BY Zenon DEF Holds
<1>2. d.output = DirectItems(v.stream, locale)
  BY <1>1, Zenon DEF DirectItems
<1>3. d.output = [i \in DOMAIN d.vers |-> timelineItem(object[d.vers[i]], v.stream, locale)]
  BY <1>1
<1>4. Projected(object, v.session, d)
  BY <1>3 DEF Projected
<1>5. v.array.id # None
  BY <1>1, PresentationAssumption
<1>6. ItemsCached(object, content, n, v.session, d)
  BY <1>1, <1>4, <1>5, Zenon DEF ItemsCached
<1>7. QED
  BY <1>2, <1>6 DEF Fresh

LEMMA ItemsProjected ==
  ASSUME NEW object, NEW content, NEW records, NEW n \in Nat, NEW c, NEW v, NEW locale,
         Shape(c), ItemsCached(object, content, n, v.session, c),
         Holds(object, content, records, n, v.stream, v.vers, v.array, v.pendingVer),
         NEW d, d = ProjectItems(c, v, locale)
  PROVE  Fresh(object, content, n, c, d, v, locale)
<1> DEFINE s == v.stream
           context == <<v.session, locale, s.worker, s.activeTurnId>>
           same == c.context = context
           changes == IF c.array # None /\ same THEN presentationItemChanges(c.array, v.array) ELSE None
           key(i) == timelineProjectionKey(v.session, s.items[i], s, locale)
           kept(i) == same /\ i \in DOMAIN c.vers /\ (i \in DOMAIN c.vers => c.vers[i] = v.vers[i])
           cached(i) == v.vers[i] \in DOMAIN c.entries /\ (v.vers[i] \in DOMAIN c.entries => c.entries[v.vers[i]].key = key(i))
           row(i) == IF kept(i) THEN c.output[i]
                     ELSE IF cached(i) THEN c.entries[v.vers[i]].value
                     ELSE timelineItem(s.items[i], s, locale)
           touched == IF changes = None THEN DOMAIN s.items ELSE changes
           output == [i \in DOMAIN s.items |-> IF i \in touched THEN row(i) ELSE c.output[i]]
           stored == {i \in touched : ~ kept(i)}
           entries == [o \in ToSet(v.vers) \cap (DOMAIN c.entries \cup {v.vers[i] : i \in stored}) |->
                         IF \E i \in stored : v.vers[i] = o
                         THEN LET i == CHOOSE i \in stored : v.vers[i] = o IN [key |-> key(i), value |-> row(i)]
                         ELSE c.entries[o]]
           id == v.array.id
           vs == v.vers
           Right(i) == timelineItem(s.items[i], s, locale)
<1>1. d = IF c.array = id /\ same THEN c
          ELSE IF changes # None /\ changes = {} /\ Len(c.output) = Len(s.items) THEN [c EXCEPT !.array = id, !.vers = vs]
          ELSE [c EXCEPT !.array = id, !.vers = vs, !.output = output, !.context = context, !.entries = entries]
  BY Zenon DEF ProjectItems
<1>2. /\ DOMAIN vs = DOMAIN s.items
      /\ \A i \in DOMAIN vs : vs[i] \in Ids(n) /\ Genuine(s.items[i]) /\ object[vs[i]] = s.items[i]
      /\ id \in 0 .. n /\ content[id] = vs
      /\ v.array.previous # None => v.array.previous \in 0 .. n /\ Derived(content[v.array.previous], vs, v.array.indices)
  BY Zenon DEF Holds
<1>3. id # None
  BY <1>2, PresentationAssumption
<1>4. same => /\ \A i \in DOMAIN c.vers : c.output[i] = timelineItem(object[c.vers[i]], s, locale)
              /\ c.array # None => c.output = [i \in DOMAIN c.vers |-> timelineItem(object[c.vers[i]], s, locale)]
  BY KeptRows
<1>5. \A o \in DOMAIN c.entries : o \in Ids(n) /\ Genuine(object[o]) /\ MadeFor(v.session, object[o], c.entries[o])
  BY Zenon DEF ItemsCached
<1>6. c.array # None => c.vers = content[c.array]
  BY Zenon DEF ItemsCached
<1>7. changes # None => /\ same /\ changes = v.array.indices /\ v.array.previous = c.array /\ c.array # None
                        /\ Derived(c.vers, vs, changes)
  BY <1>2, <1>6, Zenon DEF presentationItemChanges
<1> HIDE DEF changes, key
<1>8. \A i \in DOMAIN vs : row(i) = Right(i)
  <2> SUFFICES ASSUME NEW i \in DOMAIN vs PROVE row(i) = Right(i)
    OBVIOUS
  <2>1. CASE kept(i)
    BY <1>2, <1>4, <2>1
  <2>2. CASE ~ kept(i) /\ cached(i)
    <3> DEFINE o == vs[i]
    <3>1. o \in DOMAIN c.entries /\ c.entries[o].key = key(i) /\ row(i) = c.entries[o].value
      BY <2>2, Zenon
    <3>2. object[o] = s.items[i]
      BY <1>2, Zenon
    <3>3. PICK z, l : /\ c.entries[o].key = timelineProjectionKey(v.session, s.items[i], z, l)
                      /\ c.entries[o].value = timelineItem(s.items[i], z, l)
      BY <1>5, <3>1, <3>2 DEF MadeFor
    <3>4. timelineItem(s.items[i], z, l) = Right(i)
      <4>1. timelineProjectionKey(v.session, s.items[i], z, l) = timelineProjectionKey(v.session, s.items[i], s, locale)
        BY <3>1, <3>3, Zenon DEF key
      <4>2. Genuine(s.items[i])
        BY <1>2, Zenon
      <4>3. QED
        BY <4>1, <4>2, KeyDecides
    <3>5. QED
      BY <3>1, <3>3, <3>4, Zenon
  <2>3. CASE ~ kept(i) /\ ~ cached(i)
    BY <2>3, Zenon
  <2>4. QED
    BY <2>1, <2>2, <2>3
<1>9. touched \subseteq DOMAIN vs
  BY <1>2, <1>7, Zenon DEF Derived
<1>10. \A i \in DOMAIN vs : i \notin touched => c.output[i] = Right(i)
  <2> SUFFICES ASSUME NEW i \in DOMAIN vs, i \notin touched PROVE c.output[i] = Right(i)
    OBVIOUS
  <2>1. changes # None /\ i \notin changes
    BY <1>2, Zenon
  <2>2. i \in DOMAIN c.vers /\ vs[i] = c.vers[i] /\ same
    BY <1>7, <2>1, Zenon DEF Derived
  <2>3. QED
    BY <1>2, <1>4, <2>2, Zenon
<1>11. CASE c.array = id /\ same
  <2>1. d = c /\ c.vers = vs /\ c.array # None
    BY <1>1, <1>2, <1>3, <1>6, <1>11, Zenon
  <2>2. c.output = [i \in DOMAIN vs |-> Right(i)]
    BY <1>2, <1>4, <1>11, <2>1
  <2>3. DOMAIN d.output = DOMAIN vs /\ d.output = [i \in DOMAIN d.output |-> d.output[i]]
        /\ \A i \in DOMAIN vs : d.output[i] = Right(i)
    BY <2>1, <2>2, Zenon
  <2>4. d.array = id /\ d.vers = vs /\ d.context = context /\ Shape(d)
    BY <1>11, <2>1
  <2>5. QED
    BY <1>5, <2>1, <2>3, <2>4, FreshRows, Zenon
<1>12. CASE /\ ~ (c.array = id /\ same)
            /\ changes # None /\ changes = {} /\ Len(c.output) = Len(s.items)
  <2>1. d = [c EXCEPT !.array = id, !.vers = vs]
    BY <1>1, <1>12, Zenon
  <2>2. /\ Shape(d) /\ d.array = id /\ d.vers = vs /\ d.output = c.output /\ d.context = c.context
        /\ d.entries = c.entries /\ d.pending = c.pending /\ d.pendingLocale = c.pendingLocale
        /\ d.pendingRows = c.pendingRows /\ d.lastKey = c.lastKey /\ d.last = c.last
    <3> HIDE DEF id, vs
    <3>1. QED
      BY <2>1 DEF Shape
  <2>3. same /\ c.array # None /\ DOMAIN c.vers = DOMAIN vs /\ \A i \in DOMAIN vs : c.vers[i] = vs[i]
    <3>1. same /\ c.array # None /\ Derived(c.vers, vs, changes) /\ changes = {}
      BY <1>7, <1>12, Zenon
    <3> HIDE DEF vs, same
    <3>2. QED
      BY <3>1 DEF Derived
  <2>4. c.output = [i \in DOMAIN vs |-> Right(i)]
    BY <1>2, <1>4, <2>3
  <2>5. DOMAIN d.output = DOMAIN vs /\ d.output = [i \in DOMAIN d.output |-> d.output[i]]
        /\ \A i \in DOMAIN vs : d.output[i] = Right(i)
    BY <2>2, <2>4, Zenon
  <2>6. QED
    BY <1>5, <2>2, <2>3, <2>5, FreshRows, Zenon
<1>13. CASE /\ ~ (c.array = id /\ same)
            /\ ~ (changes # None /\ changes = {} /\ Len(c.output) = Len(s.items))
  <2>1. d = [c EXCEPT !.array = id, !.vers = vs, !.output = output, !.context = context, !.entries = entries]
    BY <1>1, <1>13, Zenon
  <2>2. /\ Shape(d) /\ d.array = id /\ d.vers = vs /\ d.output = output /\ d.context = context
        /\ d.entries = entries /\ d.pending = c.pending /\ d.pendingLocale = c.pendingLocale
        /\ d.pendingRows = c.pendingRows /\ d.lastKey = c.lastKey /\ d.last = c.last
    <3> HIDE DEF id, vs, output, context, entries
    <3>1. QED
      BY <2>1 DEF Shape
  <2>3. \A i \in DOMAIN vs : output[i] = Right(i)
    <3>1. \A i \in DOMAIN vs : output[i] = IF i \in touched THEN row(i) ELSE c.output[i]
      BY <1>2, Zenon
    <3> HIDE DEF row, touched, output
    <3>2. QED
      BY <1>8, <1>10, <3>1, Zenon
  <2>4. DOMAIN output = DOMAIN vs /\ output = [i \in DOMAIN output |-> output[i]]
    <3>1. DOMAIN output = DOMAIN s.items /\ output = [i \in DOMAIN output |-> output[i]]
      <4> HIDE DEF row, touched
      <4>1. QED
        BY Zenon
    <3>2. QED
      BY <1>2, <3>1, Zenon
  <2>5. ASSUME NEW o \in DOMAIN entries
        PROVE  o \in Ids(n) /\ Genuine(object[o]) /\ MadeFor(v.session, object[o], entries[o])
    <3>1. /\ o \in DOMAIN c.entries \/ \E i \in stored : vs[i] = o
          /\ entries[o] = IF \E i \in stored : vs[i] = o
                          THEN LET i == CHOOSE i \in stored : vs[i] = o IN [key |-> key(i), value |-> row(i)]
                          ELSE c.entries[o]
      <4> HIDE DEF row, stored
      <4>1. QED
        BY <2>5, Zenon
    <3>2. CASE \E i \in stored : vs[i] = o
      <4> DEFINE i == CHOOSE i \in stored : vs[i] = o
      <4>1. i \in stored /\ vs[i] = o
        <5> HIDE DEF stored
        <5>1. QED
          BY <3>2, Zenon
      <4>2. entries[o] = [key |-> key(i), value |-> row(i)]
        BY <3>1, <3>2, Zenon
      <4>3. i \in DOMAIN vs
        BY <1>9, <4>1, Zenon
      <4> HIDE DEF i, entries, row
      <4>4. entries[o].key = key(i) /\ entries[o].value = Right(i) /\ object[o] = s.items[i]
            /\ o \in Ids(n) /\ Genuine(s.items[i])
        <5>1. row(i) = Right(i) /\ object[o] = s.items[i] /\ o \in Ids(n) /\ Genuine(s.items[i])
          BY <1>2, <1>8, <4>1, <4>3, Zenon
        <5>2. entries[o].key = key(i) /\ entries[o].value = row(i)
          BY <4>2
        <5>3. QED
          BY <5>1, <5>2, Zenon
      <4>5. QED
        BY <4>4, Zenon DEF MadeFor, key
    <3>3. CASE ~ \E i \in stored : vs[i] = o
      <4> HIDE DEF stored, entries, row
      <4>1. QED
        BY <1>5, <3>1, <3>3, Zenon
    <3>4. QED
      BY <3>2, <3>3
  <2>6. QED
    <3> HIDE DEF entries, output
    <3>1. QED
      BY <2>2, <2>3, <2>4, <2>5, FreshRows, Zenon
<1>14. QED
  BY <1>11, <1>12, <1>13

---------------------------------------------------------------------------
(* The requests, the last turn and all of them *)

LEMMA PendingProjected ==
  ASSUME NEW records, NEW n \in Nat, NEW c, NEW v, NEW locale, Shape(c), PendingCached(records, n, c),
         v.pendingVer \in 0 .. n, records[v.pendingVer] = v.stream.pending,
         NEW d, d = ProjectPending(c, v, locale)
  PROVE  /\ Shape(d) /\ PendingCached(records, n, d) /\ d.pendingRows = projectPending(v.stream, locale)
         /\ d.array = c.array /\ d.vers = c.vers /\ d.output = c.output /\ d.context = c.context
         /\ d.entries = c.entries /\ d.lastKey = c.lastKey /\ d.last = c.last
<1> DEFINE rows == projectPending(v.stream, locale)
           pv == v.pendingVer
<1>1. rows = {<<q, records[pv][q], locale>> : q \in DOMAIN records[pv]}
  BY DEF projectPending, nativeRequestPresentation
<1>2. pv # None
  BY PresentationAssumption
<1>3. CASE c.pending = pv /\ c.pendingLocale = locale
  <2>1. d = c
    BY <1>3 DEF ProjectPending
  <2>2. QED
    BY <1>1, <1>2, <1>3, <2>1 DEF PendingCached
<1>4. CASE ~ (c.pending = pv /\ c.pendingLocale = locale)
  <2>1. d = [c EXCEPT !.pending = pv, !.pendingLocale = locale, !.pendingRows = rows]
    BY <1>4, Zenon DEF ProjectPending
  <2> HIDE DEF rows, pv
  <2>2. /\ Shape(d) /\ d.pending = pv /\ d.pendingLocale = locale /\ d.pendingRows = rows
        /\ d.array = c.array /\ d.vers = c.vers /\ d.output = c.output /\ d.context = c.context
        /\ d.entries = c.entries /\ d.lastKey = c.lastKey /\ d.last = c.last
    BY <2>1 DEF Shape
  <2>3. PendingCached(records, n, d)
    BY <1>1, <2>2 DEF PendingCached, pv
  <2>4. QED
    BY <2>2, <2>3 DEF rows
<1>5. QED
  BY <1>3, <1>4

LEMMA TripleEqual ==
  ASSUME NEW a, NEW b, NEW c, NEW e, NEW f, NEW q, q = <<a, b, c>>, q = <<a, e, f>>
  PROVE  b = e /\ c = f
  OBVIOUS

LEMMA LastProjected ==
  ASSUME NEW c, NEW v, NEW locale, Shape(c), c.last # None => LastMade(v.session, c),
         NEW d, d = ProjectLastTurn(c, v, locale)
  PROVE  /\ Shape(d)
         /\ d.last # None => LastMade(v.session, d)
         /\ ShowsLastTurn(v.stream) => d.last = LastTurn(v.stream, locale)
         /\ d.array = c.array /\ d.vers = c.vers /\ d.output = c.output /\ d.context = c.context
         /\ d.entries = c.entries /\ d.pending = c.pending /\ d.pendingLocale = c.pendingLocale
         /\ d.pendingRows = c.pendingRows
<1> DEFINE status == v.stream.lastTurnStatus
           key == <<v.session, status, locale>>
           last == LastTurn(v.stream, locale)
<1>1. last = [kind |-> "work", id |-> <<"last-turn">>, status |-> status, title |-> locale]
  BY DEF LastTurn
<1>2. CASE ~ ShowsLastTurn(v.stream)
  <2>1. d = c
    BY <1>2 DEF ProjectLastTurn
  <2>2. QED
    BY <1>2, <2>1
<1>3. CASE ShowsLastTurn(v.stream) /\ c.last # None /\ c.lastKey = key
  <2>1. d = c
    BY <1>3 DEF ProjectLastTurn
  <2>2. PICK st, l : /\ c.lastKey = <<v.session, st, l>>
                     /\ c.last = [kind |-> "work", id |-> <<"last-turn">>, status |-> st, title |-> l]
    BY <1>3, Zenon DEF LastMade
  <2>3. st = status /\ l = locale
    BY <1>3, <2>2, TripleEqual
  <2>4. d.last = last
    BY <1>1, <2>1, <2>2, <2>3, Zenon
  <2>5. QED
    BY <2>1, <2>4
<1>4. CASE ShowsLastTurn(v.stream) /\ ~ (c.last # None /\ c.lastKey = key)
  <2>1. d = [c EXCEPT !.lastKey = key, !.last = last]
    BY <1>4, Zenon DEF ProjectLastTurn
  <2> HIDE DEF key, last
  <2>2. /\ Shape(d) /\ d.lastKey = key /\ d.last = last
        /\ d.array = c.array /\ d.vers = c.vers /\ d.output = c.output /\ d.context = c.context
        /\ d.entries = c.entries /\ d.pending = c.pending /\ d.pendingLocale = c.pendingLocale
        /\ d.pendingRows = c.pendingRows
    BY <2>1 DEF Shape
  <2>3. LastMade(v.session, d)
    BY <1>1, <2>2, Zenon DEF LastMade, key
  <2>4. QED
    BY <2>2, <2>3 DEF last
<1>5. QED
  BY <1>2, <1>3, <1>4

LEMMA SameItems ==
  ASSUME NEW object, NEW content, NEW n, NEW sessionId, NEW c, NEW d,
         ItemsCached(object, content, n, sessionId, c),
         d.array = c.array, d.vers = c.vers, d.output = c.output, d.context = c.context, d.entries = c.entries
  PROVE  ItemsCached(object, content, n, sessionId, d)
<1>1. Projected(object, sessionId, c) => Projected(object, sessionId, d)
  BY DEF Projected
<1>2. QED
  BY <1>1 DEF ItemsCached

LEMMA SamePending ==
  ASSUME NEW records, NEW n, NEW c, NEW d, PendingCached(records, n, c),
         d.pending = c.pending, d.pendingLocale = c.pendingLocale, d.pendingRows = c.pendingRows
  PROVE  PendingCached(records, n, d)
  BY DEF PendingCached

LEMMA SameLast ==
  ASSUME NEW sessionId, NEW c, NEW d, c.last # None => LastMade(sessionId, c),
         d.lastKey = c.lastKey, d.last = c.last
  PROVE  d.last # None => LastMade(sessionId, d)
  BY DEF LastMade

(* What the projector answers for a view is what the view gives anew.      *)
Answers(object, content, records, n, v, d) ==
    /\ Cached(object, content, records, n, v.session, d)
    /\ d.output = DirectItems(v.stream, v.locale)
    /\ d.pendingRows = projectPending(v.stream, v.locale)
    /\ ShowsLastTurn(v.stream) => d.last = LastTurn(v.stream, v.locale)

LEMMA ModelProjected ==
  ASSUME NEW object, NEW content, NEW records, NEW n \in Nat, NEW c, NEW v,
         Cached(object, content, records, n, v.session, c),
         Holds(object, content, records, n, v.stream, v.vers, v.array, v.pendingVer),
         NEW d, d = nativeConversationModel(c, v, v.locale)
  PROVE  Answers(object, content, records, n, v, d)
<1> DEFINE a == ProjectItems(c, v, v.locale)
           b == ProjectPending(a, v, v.locale)
<1>1. d = ProjectLastTurn(b, v, v.locale)
  BY DEF nativeConversationModel
<1>2. /\ Shape(c) /\ ItemsCached(object, content, n, v.session, c) /\ PendingCached(records, n, c)
      /\ c.last # None => LastMade(v.session, c)
  BY Zenon DEF Cached
<1>3. v.pendingVer \in 0 .. n /\ records[v.pendingVer] = v.stream.pending
  BY Zenon DEF Holds
<1> DEFINE locale == v.locale
<1>4. Fresh(object, content, n, c, a, v, locale)
  <2> HIDE DEF locale
  <2> DEFINE x == ProjectItems(c, v, locale)
  <2>1. Fresh(object, content, n, c, x, v, locale)
    <3>1. x = ProjectItems(c, v, locale)
      OBVIOUS
    <3> HIDE DEF x
    <3>2. QED
      BY <1>2, <3>1, ItemsProjected
  <2>2. QED
    BY <2>1 DEF locale
<1>5. /\ Shape(a) /\ ItemsCached(object, content, n, v.session, a) /\ a.output = DirectItems(v.stream, locale)
      /\ a.pending = c.pending /\ a.pendingLocale = c.pendingLocale /\ a.pendingRows = c.pendingRows
      /\ a.lastKey = c.lastKey /\ a.last = c.last
  <2> HIDE DEF a, locale
  <2>1. QED
    BY <1>4, Zenon DEF Fresh
<1> HIDE DEF a
<1>6. PendingCached(records, n, a) /\ (a.last # None => LastMade(v.session, a))
  BY <1>2, <1>5, SamePending, SameLast
<1>7. b = ProjectPending(a, v, locale)
  BY DEF b
<1> HIDE DEF b
<1>8. /\ Shape(b) /\ PendingCached(records, n, b) /\ b.pendingRows = projectPending(v.stream, locale)
      /\ b.array = a.array /\ b.vers = a.vers /\ b.output = a.output /\ b.context = a.context
      /\ b.entries = a.entries /\ b.lastKey = a.lastKey /\ b.last = a.last
  <2> HIDE DEF locale
  <2>1. QED
    BY <1>3, <1>5, <1>6, <1>7, PendingProjected
<1>9. ItemsCached(object, content, n, v.session, b) /\ (b.last # None => LastMade(v.session, b))
  BY <1>5, <1>6, <1>8, SameItems, SameLast
<1>10. d = ProjectLastTurn(b, v, locale)
  BY <1>1
<1>11. /\ Shape(d)
       /\ d.last # None => LastMade(v.session, d)
       /\ ShowsLastTurn(v.stream) => d.last = LastTurn(v.stream, locale)
       /\ d.array = b.array /\ d.vers = b.vers /\ d.output = b.output /\ d.context = b.context
       /\ d.entries = b.entries /\ d.pending = b.pending /\ d.pendingLocale = b.pendingLocale
       /\ d.pendingRows = b.pendingRows
  <2> HIDE DEF locale
  <2>1. QED
    BY <1>8, <1>9, <1>10, LastProjected
<1>12. ItemsCached(object, content, n, v.session, d) /\ PendingCached(records, n, d)
  BY <1>8, <1>9, <1>11, SameItems, SamePending
<1>13. QED
  BY <1>5, <1>8, <1>11, <1>12, Zenon DEF Cached, Answers

---------------------------------------------------------------------------
(* The stream: what an event does to the items and the requests *)

IsSequence(q) == \E S : q \in Seq(S)

Whole(s) ==
    /\ s = [cursor |-> s.cursor, worker |-> s.worker, activeTurnId |-> s.activeTurnId, items |-> s.items,
            pending |-> s.pending, decisions |-> s.decisions, queue |-> s.queue, metadata |-> s.metadata,
            native |-> s.native, lastTurnStatus |-> s.lastTurnStatus, turnFailures |-> s.turnFailures, ok |-> s.ok]
    /\ IsSequence(s.items)

AllGenuine(items) == \A i \in DOMAIN items : Genuine(items[i])

(* But for some places the items are the same objects. *)
Changes(old, new, indices) ==
    /\ IsSequence(new) /\ AllGenuine(new)
    /\ DOMAIN new = DOMAIN old \cup indices
    /\ \A i \in DOMAIN new : i \notin indices => i \in DOMAIN old /\ new[i] = old[i]

LEMMA SequenceFacts ==
  ASSUME NEW q, IsSequence(q)
  PROVE  /\ Len(q) \in Nat /\ DOMAIN q = 1 .. Len(q) /\ DOMAIN q \subseteq Nat
         /\ q = [i \in 1 .. Len(q) |-> q[i]]
<1>1. PICK S : q \in Seq(S)
  BY DEF IsSequence
<1>2. QED
  BY <1>1

LEMMA FunctionIsSequence ==
  ASSUME NEW n \in Nat, NEW f, DOMAIN f = 1 .. n, f = [i \in 1 .. n |-> f[i]]
  PROVE  IsSequence(f)
<1> DEFINE S == {f[i] : i \in 1 .. n}
<1>1. f \in [1 .. n -> S]
  BY Zenon
<1>2. f \in Seq(S)
  <2> HIDE DEF S
  <2>1. QED
    BY <1>1
<1>3. QED
  BY <1>2, Zenon DEF IsSequence

LEMMA AppendChanges ==
  ASSUME NEW q, IsSequence(q), AllGenuine(q), NEW x, Genuine(x)
  PROVE  Changes(q, Append(q, x), {Len(q) + 1})
<1> DEFINE p == Append(q, x)
<1>1. PICK S : q \in Seq(S)
  BY DEF IsSequence
<1> DEFINE T == S \cup {x}
<1>2. q \in Seq(T) /\ x \in T
  BY <1>1
<1> HIDE DEF T
<1>3. /\ p \in Seq(T) /\ Len(p) = Len(q) + 1 /\ Len(q) \in Nat /\ DOMAIN q = 1 .. Len(q)
      /\ DOMAIN p = 1 .. (Len(q) + 1) /\ p[Len(q) + 1] = x /\ \A i \in 1 .. Len(q) : p[i] = q[i]
  BY <1>2
<1> HIDE DEF p
<1>4. DOMAIN p = DOMAIN q \cup {Len(q) + 1}
  BY <1>3
<1>5. \A i \in DOMAIN p : i # Len(q) + 1 => i \in DOMAIN q /\ p[i] = q[i]
  BY <1>3, <1>4
<1>6. AllGenuine(p)
  BY <1>3, <1>4, <1>5, Zenon DEF AllGenuine
<1>7. IsSequence(p)
  BY <1>3, Zenon DEF IsSequence
<1>8. QED
  BY <1>4, <1>5, <1>6, <1>7, Zenon DEF Changes, p

LEMMA ReplaceChanges ==
  ASSUME NEW q, IsSequence(q), AllGenuine(q), NEW k \in DOMAIN q, NEW x, Genuine(x)
  PROVE  Changes(q, [q EXCEPT ![k] = x], {k})
<1> DEFINE p == [q EXCEPT ![k] = x]
<1>1. DOMAIN p = DOMAIN q /\ \A i \in DOMAIN p : p[i] = IF i = k THEN x ELSE q[i]
  BY Zenon
<1>2. p = [i \in DOMAIN q |-> p[i]]
  BY Zenon
<1> HIDE DEF p
<1>3. IsSequence(p)
  BY <1>1, <1>2, SequenceFacts, FunctionIsSequence
<1>4. DOMAIN p = DOMAIN q \cup {k} /\ AllGenuine(p)
  BY <1>1 DEF AllGenuine
<1>5. QED
  BY <1>1, <1>3, <1>4, Zenon DEF Changes, p

LEMMA UpdatedGenuine ==
  ASSUME NEW old, Genuine(old), NEW e
  PROVE  Genuine(UpdatedItem(old, e))
<1> DEFINE x == UpdatedItem(old, e)
<1>1. \E text, status, truncated :
         x = [old EXCEPT !.text = text, !.status = status, !.truncated = truncated]
  BY Zenon DEF UpdatedItem
<1>2. PICK text, status, truncated :
         x = [old EXCEPT !.text = text, !.status = status, !.truncated = truncated]
  BY <1>1, Zenon
<1> HIDE DEF x
<1>3. QED
  BY <1>2 DEF Genuine, x

LEMMA ItemIndexFacts ==
  ASSUME NEW items, IsSequence(items), NEW turn, NEW id
  PROVE  LET i == ItemIndex(items, turn, id)
         IN  (i \in DOMAIN items /\ ~ (i > Len(items))) \/ (i = Len(items) + 1 /\ i > Len(items))
<1> DEFINE found == {i \in DOMAIN items : items[i].turn = turn /\ items[i].id = id}
           i == ItemIndex(items, turn, id)
<1>1. Len(items) \in Nat /\ DOMAIN items = 1 .. Len(items)
  BY SequenceFacts
<1>2. i = IF found = {} THEN Len(items) + 1 ELSE CHOOSE k \in found : TRUE
  BY Zenon DEF ItemIndex
<1>3. found # {} => i \in DOMAIN items
  BY <1>2
<1> HIDE DEF i, found
<1>4. i \in DOMAIN items \/ i = Len(items) + 1
  BY <1>2, <1>3
<1>5. (i \in DOMAIN items /\ ~ (i > Len(items))) \/ (i = Len(items) + 1 /\ i > Len(items))
  <2>1. \A n \in Nat : \A k : (k \in 1 .. n => ~ (k > n)) /\ (k = n + 1 => k > n)
    OBVIOUS
  <2>2. QED
    BY <1>1, <1>4, <2>1
<1>6. QED
  BY <1>5, Zenon DEF i

(* What an event changes, and what it leaves as it is.                     *)
Reduces(s, r, indices) ==
    Whole(r) /\ Changes(s.items, r.items, indices)

LEMMA ItemReduced ==
  ASSUME NEW s, Whole(s), AllGenuine(s.items), NEW e, e.role \in Roles,
         e.role = "activity" => e.item \notin WithImages, NEW r, r = reduceItem(s, e)
  PROVE  Reduces(s, r, {ItemIndex(s.items, e.turn, e.item)}) /\ r.pending = s.pending
<1> DEFINE i == ItemIndex(s.items, e.turn, e.item)
           new == i > Len(s.items)
           item == UpdatedItem(IF new THEN NewItem(e) ELSE s.items[i], e)
           items == IF new THEN Append(s.items, item) ELSE [s.items EXCEPT ![i] = item]
           ok == IF new THEN Len(s.items) < ItemLimit ELSE s.items[i].role = e.role
<1>1. r = [s EXCEPT !.items = items, !.ok = ok]
  <2> HIDE DEF item, i
  <2>1. CASE i > Len(s.items)
    BY <2>1 DEF reduceItem, item, i
  <2>2. CASE ~ (i > Len(s.items))
    <3>1. r = [s EXCEPT !.items[i] = item, !.ok = s.items[i].role = e.role]
      BY <2>2, Zenon DEF reduceItem, item, i
    <3>2. s = [cursor |-> s.cursor, worker |-> s.worker, activeTurnId |-> s.activeTurnId, items |-> s.items,
            pending |-> s.pending, decisions |-> s.decisions, queue |-> s.queue, metadata |-> s.metadata,
            native |-> s.native, lastTurnStatus |-> s.lastTurnStatus, turnFailures |-> s.turnFailures, ok |-> s.ok]
      BY Zenon DEF Whole
    <3>3. QED
      BY <2>2, <3>1
  <2>3. QED
    BY <2>1, <2>2
<1>2. (i \in DOMAIN s.items /\ ~ new) \/ (i = Len(s.items) + 1 /\ new)
  BY ItemIndexFacts, Zenon DEF Whole
<1>3. Genuine(NewItem(e))
  BY DEF Genuine, NewItem
<1>4. Genuine(item)
  <2>1. ~ new => Genuine(s.items[i])
    BY <1>2 DEF AllGenuine
  <2>2. Genuine(IF new THEN NewItem(e) ELSE s.items[i])
    BY <1>3, <2>1
  <2>3. QED
    BY <2>2, UpdatedGenuine
<1> HIDE DEF item, i
<1>5. Changes(s.items, items, {i})
  <2>1. IsSequence(s.items)
    BY Zenon DEF Whole
  <2>2. CASE new
    <3>1. Changes(s.items, Append(s.items, item), {Len(s.items) + 1})
      BY <1>4, <2>1, AppendChanges
    <3>2. i = Len(s.items) + 1
      BY <1>2, <2>2
    <3>3. QED
      BY <2>2, <3>1, <3>2
  <2>3. CASE ~ new
    BY <1>2, <1>4, <2>1, <2>3, ReplaceChanges
  <2>4. QED
    BY <2>2, <2>3
<1> HIDE DEF items, ok
<1>6. r.items = items /\ r.pending = s.pending /\ IsSequence(items)
  BY <1>1, <1>5 DEF Whole, Changes
<1>7. Whole(r)
  BY <1>1, <1>6 DEF Whole
<1>8. QED
  BY <1>5, <1>6, <1>7 DEF Reduces, i

LEMMA SameChanges ==
  ASSUME NEW items, IsSequence(items), AllGenuine(items) PROVE Changes(items, items, {})
  BY Zenon DEF Changes

LEMMA InputReduced ==
  ASSUME NEW s, Whole(s), AllGenuine(s.items), NEW e, e.kind \in {"input.request", "input.resolved"},
         NEW r, r = reduceInput(s, e)
  PROVE  Whole(r) /\ r.items = s.items
<1>1. \E pending, decisions : r = [s EXCEPT !.pending = pending, !.decisions = decisions]
  <2>1. CASE e.kind = "input.request"
    BY <2>1, Zenon DEF reduceInput
  <2>2. CASE e.kind = "input.resolved"
    BY <2>2, Zenon DEF reduceInput
  <2>3. QED
    BY <2>1, <2>2, Zenon
<1>2. PICK pending, decisions : r = [s EXCEPT !.pending = pending, !.decisions = decisions]
  BY <1>1, Zenon
<1>3. QED
  BY <1>2 DEF Whole

LEMMA StateReduced ==
  ASSUME NEW s, Whole(s), AllGenuine(s.items), NEW e, NEW r, r = reduceState(s, e)
  PROVE  /\ Whole(r) /\ r.items = s.items
         /\ e.status \notin {"closed", "disconnected"} => r.pending = s.pending
<1> DEFINE gone == e.status \in {"closed", "disconnected"}
           active == IF e.status \in TurnStates THEN Or(e.turn, s.activeTurnId) ELSE None
           pending == IF gone THEN <<>> ELSE s.pending
           decisions == IF gone THEN expireDecisions(s.decisions) ELSE s.decisions
<1>1. r = [s EXCEPT !.worker = e.status, !.activeTurnId = active, !.pending = pending, !.decisions = decisions]
  BY Zenon DEF reduceState
<1> HIDE DEF active, pending, decisions
<1>2. Whole(r) /\ r.items = s.items /\ r.pending = pending
  BY <1>1 DEF Whole
<1>3. QED
  BY <1>2 DEF pending

LEMMA EndedGenuine ==
  ASSUME NEW old, Genuine(old), NEW status
  PROVE  Genuine([old EXCEPT !.turnStatus = status])
  BY DEF Genuine

LEMMA TurnEndReduced ==
  ASSUME NEW s, Whole(s), AllGenuine(s.items), NEW e, NEW r, r = reduceTurnEnd(s, e)
  PROVE  Reduces(s, r, {i \in DOMAIN s.items : s.items[i].turn = e.turn})
<1> DEFINE ended(item) == IF item.turn = e.turn THEN [item EXCEPT !.turnStatus = e.status] ELSE item
           items == [i \in DOMAIN s.items |-> ended(s.items[i])]
           decisions == expireDecisions(s.decisions)
           failures == IF e.status = "failed" THEN s.turnFailures \cup {e.turn} ELSE s.turnFailures
           active == IF s.activeTurnId = e.turn THEN None ELSE s.activeTurnId
           indices == {i \in DOMAIN s.items : s.items[i].turn = e.turn}
<1>1. r = [s EXCEPT !.pending = <<>>, !.decisions = decisions, !.lastTurnStatus = e.status,
                    !.turnFailures = failures, !.activeTurnId = active, !.items = items]
  BY Zenon DEF reduceTurnEnd
<1>2. \A i \in DOMAIN s.items : Genuine(ended(s.items[i]))
  BY EndedGenuine, Zenon DEF AllGenuine
<1>3. \A i \in DOMAIN s.items : i \notin indices => ended(s.items[i]) = s.items[i]
  OBVIOUS
<1> HIDE DEF ended
<1>4. /\ DOMAIN items = DOMAIN s.items /\ \A i \in DOMAIN items : items[i] = ended(s.items[i])
      /\ items = [i \in DOMAIN s.items |-> items[i]]
  BY Zenon
<1> HIDE DEF items, decisions, failures, active
<1>5. IsSequence(s.items)
  BY Zenon DEF Whole
<1>6. IsSequence(items)
  BY <1>4, <1>5, SequenceFacts, FunctionIsSequence
<1>7. Changes(s.items, items, indices)
  <2>1. AllGenuine(items) /\ \A i \in DOMAIN items : i \notin indices => i \in DOMAIN s.items /\ items[i] = s.items[i]
    BY <1>2, <1>3, <1>4, Zenon DEF AllGenuine
  <2>2. indices \subseteq DOMAIN s.items
    OBVIOUS
  <2>3. DOMAIN items = DOMAIN s.items \cup indices
    BY <1>4, <2>2
  <2>4. QED
    BY <1>6, <2>1, <2>3, Zenon DEF Changes
<1>8. r.items = items /\ Whole(r)
  <2>1. r.items = items
    BY <1>1 DEF Whole
  <2>2. QED
    BY <1>1, <1>6, <2>1 DEF Whole
<1>9. QED
  BY <1>7, <1>8 DEF Reduces

LEMMA EventFacts ==
  ASSUME NEW e \in Events
  PROVE  /\ e.kind \in {"item.snapshot", "item.delta", "session.state", "turn.end", "input.request", "input.resolved"}
         /\ e.kind \in ItemKinds => e.role \in Roles /\ (e.role = "activity" => e.item \notin WithImages)
<1> DEFINE U == {UserItem(t) : t \in {t \in Turns : stream.activeTurnId = None /\ \A i \in DOMAIN stream.items : stream.items[i].turn # t}}
           R == {Runs(t) : t \in Current}
           D == {ItemDelta(t, i, st) : t \in Current, i \in Items \ {"user"}, st \in {None, "completed"}}
           T == {TurnEnd(t, st) : t \in Current, st \in {"failed", "cancelled"}}
           I == {Input(kind, t, q) : kind \in {"input.request", "input.resolved"}, t \in Current, q \in Requests}
<1>1. e \in U \cup R \cup {Disconnected} \cup D \cup T \cup I
  BY SMT DEF Events
<1>2. CASE e \in U
  <2>1. PICK t : e = UserItem(t)
    BY <1>2
  <2>2. e.kind = "item.snapshot" /\ e.role = "user"
    BY <2>1 DEF Event, UserItem
  <2>3. QED
    BY <2>2 DEF ItemKinds, Roles
<1>3. CASE e \in R
  <2>1. PICK t : e = Runs(t)
    BY <1>3
  <2>2. e.kind = "session.state"
    BY <2>1 DEF Event, Runs
  <2>3. QED
    BY <2>2 DEF ItemKinds
<1>4. CASE e \in {Disconnected}
  <2>1. e = Disconnected
    BY <1>4
  <2>2. e.kind = "session.state"
    BY <2>1 DEF Event, Disconnected
  <2>3. QED
    BY <2>2 DEF ItemKinds
<1>5. CASE e \in D
  <2>1. PICK t \in Current, i \in Items \ {"user"}, st \in {None, "completed"} : e = ItemDelta(t, i, st)
    BY <1>5
  <2>2. e.kind = "item.delta" /\ e.role = RoleOf[i] /\ e.item = i
    BY <2>1 DEF Event, ItemDelta
  <2>3. e.role \in Roles /\ (e.role = "activity" => e.item \notin WithImages)
    BY <2>2, PresentationAssumption
  <2>4. QED
    BY <2>2, <2>3, Zenon
<1>6. CASE e \in T
  <2>1. PICK t, st : e = TurnEnd(t, st)
    BY <1>6
  <2>2. e.kind = "turn.end"
    BY <2>1 DEF Event, TurnEnd
  <2>3. QED
    BY <2>2 DEF ItemKinds
<1>7. CASE e \in I
  <2>1. PICK kind, t, q : kind \in {"input.request", "input.resolved"} /\ e = Input(kind, t, q)
    BY <1>7
  <2>2. e.kind \in {"input.request", "input.resolved"}
    BY <2>1 DEF Event, Input
  <2>3. QED
    BY <2>2 DEF ItemKinds
<1> HIDE DEF U, R, D, T, I
<1>8. QED
  BY <1>1, <1>2, <1>3, <1>4, <1>5, <1>6, <1>7, Zenon

(* The places an event touches, and whether it makes a new array of items or a new record of requests. *)
Touched(s, e) == CASE e.kind \in ItemKinds -> {ItemIndex(s.items, e.turn, e.item)}
                   [] e.kind = "turn.end" -> {i \in DOMAIN s.items : s.items[i].turn = e.turn}
                   [] OTHER -> {}
NewArray(e) == e.kind \in ItemKinds \cup {"turn.end"}
NewPending(s, e) == \/ e.kind \in {"input.request", "input.resolved", "turn.end", "session.runtime"}
                    \/ e.kind = "input.submitted" /\ e.item \in DOMAIN s.pending
                    \/ e.kind = "session.state" /\ e.status \in {"closed", "disconnected"}

LEMMA EventReduced ==
  ASSUME NEW s, Whole(s), AllGenuine(s.items), NEW e \in Events, NEW r, r = reduceEvent(s, e), r.ok
  PROVE  /\ Reduces(s, r, Touched(s, e))
         /\ ~ NewArray(e) => r.items = s.items
         /\ ~ NewPending(s, e) => r.pending = s.pending
<1> DEFINE next == CASE e.kind \in ItemKinds -> reduceItem(s, e)
                     [] e.kind \in InputKinds -> reduceInput(s, e)
                     [] e.kind = "session.state" -> reduceState(s, e)
                     [] e.kind = "turn.end" -> reduceTurnEnd(s, e)
                     [] e.kind = "session.runtime" ->
                          [s EXCEPT !.pending = <<>>, !.decisions = expireDecisions(@), !.activeTurnId = None]
                     [] e.kind = "prompt.queue" ->
                          [s EXCEPT !.queue = e.queue, !.ok = s.queue = None \/ e.queue.revision > s.queue.revision]
                     [] e.kind = "session.metadata" ->
                          [s EXCEPT !.metadata = e.metadata, !.ok = s.metadata = None \/ e.metadata > s.metadata]
                     [] e.kind = "session.identity" ->
                          [s EXCEPT !.native = e.native, !.ok = s.native \in {None, e.native}]
                     [] e.kind = "notice" -> s
           good == s.ok /\ decodeEvent(e)
           bad == [s EXCEPT !.ok = FALSE]
           done == [next EXCEPT !.cursor = @ + 1]
<1>1. r = IF good THEN done ELSE bad
  BY Zenon DEF reduceEvent
<1>2. good
  <2>1. ~ bad.ok
    <3>1. s = [cursor |-> s.cursor, worker |-> s.worker, activeTurnId |-> s.activeTurnId, items |-> s.items,
            pending |-> s.pending, decisions |-> s.decisions, queue |-> s.queue, metadata |-> s.metadata,
            native |-> s.native, lastTurnStatus |-> s.lastTurnStatus, turnFailures |-> s.turnFailures, ok |-> s.ok]
      BY Zenon DEF Whole
    <3>2. QED
      BY <3>1
  <2> HIDE DEF good, bad, done
  <2>2. QED
    BY <1>1, <2>1, Zenon
<1>3. r = done
  BY <1>1, <1>2, Zenon
<1>4. /\ e.kind \in {"item.snapshot", "item.delta", "session.state", "turn.end", "input.request", "input.resolved"}
      /\ e.kind \in ItemKinds => e.role \in Roles /\ (e.role = "activity" => e.item \notin WithImages)
  BY EventFacts
<1>5. IsSequence(s.items)
  BY Zenon DEF Whole
<1>6. /\ e.kind \in {"item.snapshot", "item.delta"} => next = reduceItem(s, e)
      /\ e.kind \in {"input.request", "input.resolved"} => next = reduceInput(s, e)
      /\ e.kind = "session.state" => next = reduceState(s, e)
      /\ e.kind = "turn.end" => next = reduceTurnEnd(s, e)
  BY DEF ItemKinds, InputKinds
<1> HIDE DEF next, good, bad
<1>7. Whole(next) /\ next.items = s.items => Reduces(s, next, {})
  BY <1>5, SameChanges, Zenon DEF Reduces
<1>8. /\ Reduces(s, next, Touched(s, e))
      /\ ~ NewArray(e) => next.items = s.items
      /\ ~ NewPending(s, e) => next.pending = s.pending
  <2>1. CASE e.kind \in {"item.snapshot", "item.delta"}
    <3>1. Reduces(s, next, {ItemIndex(s.items, e.turn, e.item)}) /\ next.pending = s.pending
      <4>1. e.role \in Roles /\ (e.role = "activity" => e.item \notin WithImages)
        BY <1>4, <2>1 DEF ItemKinds
      <4>2. QED
        BY <1>6, <2>1, <4>1, ItemReduced
    <3>2. Touched(s, e) = {ItemIndex(s.items, e.turn, e.item)} /\ NewArray(e)
      BY <2>1 DEF Touched, NewArray, ItemKinds
    <3>3. QED
      BY <3>1, <3>2
  <2>2. CASE e.kind \in {"input.request", "input.resolved"}
    <3>1. Whole(next) /\ next.items = s.items
      BY <1>6, <2>2, InputReduced
    <3>2. Touched(s, e) = {} /\ NewPending(s, e)
      BY <2>2 DEF Touched, NewPending, ItemKinds
    <3>3. QED
      BY <1>7, <3>1, <3>2
  <2>3. CASE e.kind = "session.state"
    <3>1. /\ Whole(next) /\ next.items = s.items
          /\ e.status \notin {"closed", "disconnected"} => next.pending = s.pending
      BY <1>6, <2>3, StateReduced
    <3>2. Touched(s, e) = {} /\ (~ NewPending(s, e) => e.status \notin {"closed", "disconnected"})
      BY <2>3 DEF Touched, NewPending, ItemKinds
    <3>3. QED
      BY <1>7, <3>1, <3>2
  <2>4. CASE e.kind = "turn.end"
    <3>1. Reduces(s, next, {i \in DOMAIN s.items : s.items[i].turn = e.turn})
      BY <1>6, <2>4, TurnEndReduced
    <3>2. Touched(s, e) = {i \in DOMAIN s.items : s.items[i].turn = e.turn} /\ NewArray(e) /\ NewPending(s, e)
      BY <2>4 DEF Touched, NewArray, NewPending, ItemKinds
    <3>3. QED
      BY <3>1, <3>2
  <2>5. QED
    BY <1>4, <2>1, <2>2, <2>3, <2>4
<1>9. Whole(r) /\ r.items = next.items /\ r.pending = next.pending
  BY <1>3, <1>8 DEF Whole, Reduces
<1>10. QED
  BY <1>8, <1>9 DEF Reduces

---------------------------------------------------------------------------
(* The identities handed out *)

(* What was known of the first n events is known when another was received. *)
Later(ob, co, re, ob2, co2, re2, n) ==
    /\ \A o \in Ids(n) : ob2[o] = ob[o]
    /\ \A k \in 0 .. n : co2[k] = co[k] /\ re2[k] = re[k]

LEMMA IdsLater ==
  ASSUME NEW n \in Nat
  PROVE  Ids(n) \subseteq Ids(n + 1) /\ 0 .. n \subseteq 0 .. (n + 1) /\ n + 1 \in 0 .. (n + 1)
         /\ \A i \in Nat : <<n + 1, i>> \in Ids(n + 1)
  BY DEF Ids

LEMMA HoldsLater ==
  ASSUME NEW ob, NEW co, NEW re, NEW ob2, NEW co2, NEW re2, NEW n \in Nat, Later(ob, co, re, ob2, co2, re2, n),
         NEW s, NEW vs, NEW a, NEW pv, Holds(ob, co, re, n, s, vs, a, pv)
  PROVE  Holds(ob2, co2, re2, n + 1, s, vs, a, pv)
<1>1. Ids(n) \subseteq Ids(n + 1) /\ 0 .. n \subseteq 0 .. (n + 1)
  BY IdsLater
<1>2. \A i \in DOMAIN vs : vs[i] \in Ids(n + 1) /\ Genuine(s.items[i]) /\ ob2[vs[i]] = s.items[i]
  BY <1>1, Zenon DEF Holds, Later
<1>3. a.id \in 0 .. (n + 1) /\ co2[a.id] = vs /\ pv \in 0 .. (n + 1) /\ re2[pv] = s.pending
  BY <1>1, Zenon DEF Holds, Later
<1>4. a.previous # None => a.previous \in 0 .. (n + 1) /\ Derived(co2[a.previous], vs, a.indices)
  BY <1>1, Zenon DEF Holds, Later
<1>5. QED
  BY <1>2, <1>3, <1>4, Zenon DEF Holds

LEMMA CachedLater ==
  ASSUME NEW ob, NEW co, NEW re, NEW ob2, NEW co2, NEW re2, NEW n \in Nat, Later(ob, co, re, ob2, co2, re2, n),
         NEW sessionId, NEW c, Cached(ob, co, re, n, sessionId, c)
  PROVE  Cached(ob2, co2, re2, n + 1, sessionId, c)
<1>1. Ids(n) \subseteq Ids(n + 1) /\ 0 .. n \subseteq 0 .. (n + 1)
  BY IdsLater
<1>2. ItemsCached(ob, co, n, sessionId, c) /\ PendingCached(re, n, c)
  BY Zenon DEF Cached
<1>3. ItemsCached(ob2, co2, n + 1, sessionId, c)
  <2>1. CASE c.array # None
    <3>1. /\ c.array \in 0 .. n /\ c.vers = co[c.array] /\ \A i \in DOMAIN c.vers : c.vers[i] \in Ids(n)
          /\ Projected(ob, sessionId, c)
      BY <1>2, <2>1, Zenon DEF ItemsCached
    <3>2. PICK s, l : /\ c.context = <<sessionId, l, s.worker, s.activeTurnId>>
                      /\ c.output = [i \in DOMAIN c.vers |-> timelineItem(ob[c.vers[i]], s, l)]
      BY <3>1, Zenon DEF Projected
    <3>3. \A i \in DOMAIN c.vers : timelineItem(ob2[c.vers[i]], s, l) = timelineItem(ob[c.vers[i]], s, l)
      BY <3>1, Zenon DEF Later
    <3>4. c.output = [i \in DOMAIN c.vers |-> timelineItem(ob2[c.vers[i]], s, l)]
      BY <3>2, <3>3, Zenon
    <3>5. Projected(ob2, sessionId, c)
      BY <3>2, <3>4 DEF Projected
    <3>6. c.array \in 0 .. (n + 1) /\ c.vers = co2[c.array] /\ \A i \in DOMAIN c.vers : c.vers[i] \in Ids(n + 1)
      BY <1>1, <3>1, Zenon DEF Later
    <3>7. \A o \in DOMAIN c.entries : o \in Ids(n + 1) /\ Genuine(ob2[o]) /\ MadeFor(sessionId, ob2[o], c.entries[o])
      BY <1>1, <1>2, Zenon DEF ItemsCached, Later
    <3>8. QED
      BY <2>1, <3>5, <3>6, <3>7, Zenon DEF ItemsCached
  <2>2. CASE c.array = None
    <3>1. \A o \in DOMAIN c.entries : o \in Ids(n + 1) /\ Genuine(ob2[o]) /\ MadeFor(sessionId, ob2[o], c.entries[o])
      BY <1>1, <1>2, Zenon DEF ItemsCached, Later
    <3>2. QED
      BY <1>2, <2>2, <3>1, Zenon DEF ItemsCached
  <2>3. QED
    BY <2>1, <2>2
<1>4. PendingCached(re2, n + 1, c)
  BY <1>1, <1>2 DEF PendingCached, Later
<1>5. QED
  BY <1>3, <1>4, Zenon DEF Cached

(* The event after the first n gives identities to its items, its array and its requests. *)
Given(ob, co, re, ob2, co2, re2, n, items, vs, pending) ==
    /\ Later(ob, co, re, ob2, co2, re2, n)
    /\ \A i \in Nat : ob2[<<n + 1, i>>] = items[i]
    /\ co2[n + 1] = vs /\ re2[n + 1] = pending
    /\ co2[0] = co[0] /\ re2[0] = re[0]

LEMMA HandedOut ==
  ASSUME NEW ob, NEW co, NEW re, NEW n \in Nat, NEW items, NEW vs, NEW pending
  PROVE  \E ob2, co2, re2 : Given(ob, co, re, ob2, co2, re2, n, items, vs, pending)
<1> DEFINE ob2 == [o \in Nat \X Nat |-> IF o[1] = n + 1 THEN items[o[2]] ELSE ob[o]]
           co2 == [k \in Nat |-> IF k = n + 1 THEN vs ELSE co[k]]
           re2 == [k \in Nat |-> IF k = n + 1 THEN pending ELSE re[k]]
<1>1. \A o \in Ids(n) : ob2[o] = ob[o]
  BY DEF Ids
<1>2. \A k \in 0 .. n : co2[k] = co[k] /\ re2[k] = re[k]
  OBVIOUS
<1>3. \A i \in Nat : ob2[<<n + 1, i>>] = items[i]
  OBVIOUS
<1>4. co2[n + 1] = vs /\ re2[n + 1] = pending
  OBVIOUS
<1>5. 0 \in 0 .. n
  OBVIOUS
<1> HIDE DEF ob2, co2, re2
<1>6. Given(ob, co, re, ob2, co2, re2, n, items, vs, pending)
  BY <1>1, <1>2, <1>3, <1>4, <1>5, Zenon DEF Given, Later
<1>7. QED
  BY <1>6, Zenon

(* The stream after an event: the objects it did not touch are the old ones. *)
Follows(n, s, vs, a, pv, r, places, isArray, isPending, ws, b, qv) ==
    /\ vs = [i \in DOMAIN vs |-> vs[i]]
    /\ Reduces(s, r, places)
    /\ ~ isArray => r.items = s.items /\ places = {}
    /\ ~ isPending => r.pending = s.pending
    /\ ws = [i \in DOMAIN r.items |-> IF i \in places THEN <<n + 1, i>> ELSE vs[i]]
    /\ b = IF isArray THEN [id |-> n + 1, previous |-> a.id, indices |-> places] ELSE a
    /\ qv = IF isPending THEN n + 1 ELSE pv

LEMMA HoldsNext ==
  ASSUME NEW ob, NEW co, NEW re, NEW n \in Nat, NEW s, NEW vs, NEW a, NEW pv, Holds(ob, co, re, n, s, vs, a, pv),
         NEW r, NEW places, NEW isArray \in BOOLEAN, NEW isPending \in BOOLEAN, NEW ws, NEW b, NEW qv,
         Follows(n, s, vs, a, pv, r, places, isArray, isPending, ws, b, qv),
         NEW ob2, NEW co2, NEW re2, Given(ob, co, re, ob2, co2, re2, n, r.items, ws, r.pending)
  PROVE  Holds(ob2, co2, re2, n + 1, r, ws, b, qv) /\ ws = [i \in DOMAIN ws |-> ws[i]]
<1>f. /\ vs = [i \in DOMAIN vs |-> vs[i]]
      /\ Reduces(s, r, places)
      /\ ~ isArray => r.items = s.items /\ places = {}
      /\ ~ isPending => r.pending = s.pending
      /\ ws = [i \in DOMAIN r.items |-> IF i \in places THEN <<n + 1, i>> ELSE vs[i]]
      /\ b = IF isArray THEN [id |-> n + 1, previous |-> a.id, indices |-> places] ELSE a
      /\ qv = IF isPending THEN n + 1 ELSE pv
  BY Zenon DEF Follows
<1>1. /\ IsSequence(r.items) /\ AllGenuine(r.items) /\ DOMAIN r.items = DOMAIN s.items \cup places
      /\ \A i \in DOMAIN r.items : i \notin places => i \in DOMAIN s.items /\ r.items[i] = s.items[i]
  BY <1>f, Zenon DEF Reduces, Changes
<1>0. /\ Later(ob, co, re, ob2, co2, re2, n) /\ co2[n + 1] = ws /\ re2[n + 1] = r.pending
      /\ \A i \in Nat : ob2[<<n + 1, i>>] = r.items[i]
  BY Zenon DEF Given
<1>2. Holds(ob2, co2, re2, n + 1, s, vs, a, pv)
  BY <1>0, HoldsLater
<1>3. DOMAIN ws = DOMAIN r.items /\ ws = [i \in DOMAIN ws |-> ws[i]]
      /\ \A i \in DOMAIN ws : ws[i] = IF i \in places THEN <<n + 1, i>> ELSE vs[i]
  BY <1>f, Zenon
<1>4. DOMAIN vs = DOMAIN s.items
      /\ \A i \in DOMAIN vs : vs[i] \in Ids(n + 1) /\ Genuine(s.items[i]) /\ ob2[vs[i]] = s.items[i]
  BY <1>2, Zenon DEF Holds
<1>5. \A i \in DOMAIN ws : ws[i] \in Ids(n + 1) /\ Genuine(r.items[i]) /\ ob2[ws[i]] = r.items[i]
  <2> SUFFICES ASSUME NEW i \in DOMAIN ws PROVE ws[i] \in Ids(n + 1) /\ Genuine(r.items[i]) /\ ob2[ws[i]] = r.items[i]
    OBVIOUS
  <2>1. Genuine(r.items[i]) /\ i \in Nat
    BY <1>1, <1>3, SequenceFacts, Zenon DEF AllGenuine
  <2>2. CASE i \in places
    <3>1. ws[i] = <<n + 1, i>>
      BY <1>3, <2>2, Zenon
    <3>2. QED
      BY <1>0, <2>1, <3>1, IdsLater, Zenon
  <2>3. CASE i \notin places
    <3>1. ws[i] = vs[i] /\ i \in DOMAIN vs /\ r.items[i] = s.items[i]
      BY <1>1, <1>3, <1>4, <2>3, Zenon
    <3>2. QED
      BY <1>4, <2>1, <3>1, Zenon
  <2>4. QED
    BY <2>2, <2>3
<1>6. n + 1 \in 0 .. (n + 1)
  BY IdsLater
<1>7. /\ b.id \in 0 .. (n + 1) /\ co2[b.id] = ws
      /\ b.previous # None => b.previous \in 0 .. (n + 1) /\ Derived(co2[b.previous], ws, b.indices)
  <2>1. CASE isArray
    <3>1. b.id = n + 1 /\ b.previous = a.id /\ b.indices = places
      BY <1>f, <2>1
    <3>2. a.id \in 0 .. (n + 1) /\ co2[a.id] = vs
      BY <1>2, Zenon DEF Holds
    <3>3. \A i \in DOMAIN ws : i \notin places => i \in DOMAIN vs /\ ws[i] = vs[i]
      BY <1>1, <1>3, <1>4, Zenon
    <3>4. places \subseteq DOMAIN ws /\ DOMAIN vs \subseteq DOMAIN ws
      BY <1>1, <1>3, <1>4, Zenon
    <3>5. Derived(vs, ws, places)
      BY <3>3, <3>4, Zenon DEF Derived
    <3>6. QED
      BY <1>0, <1>6, <3>1, <3>2, <3>5, Zenon
  <2>2. CASE ~ isArray
    <3>1. \A i \in DOMAIN ws : ws[i] = vs[i]
      BY <1>f, <1>3, <2>2, Zenon
    <3>2. ws = vs
      BY <1>f, <1>3, <1>4, <2>2, <3>1
    <3>3. QED
      BY <1>f, <1>0, <1>2, <2>2, <3>2, Zenon DEF Holds
  <2>3. QED
    BY <2>1, <2>2
<1>8. qv \in 0 .. (n + 1) /\ re2[qv] = r.pending
  <2>1. pv \in 0 .. (n + 1) /\ re2[pv] = s.pending
    BY <1>2, Zenon DEF Holds
  <2>2. QED
    BY <1>f, <1>0, <1>6, <2>1, Zenon
<1>9. QED
  BY <1>3, <1>5, <1>7, <1>8, Zenon DEF Holds

(* The stream after a seed or a switch: every object is new.               *)
LEMMA HoldsInstalled ==
  ASSUME NEW n \in Nat, NEW r, IsSequence(r.items), AllGenuine(r.items),
         NEW ws, ws = [i \in DOMAIN r.items |-> <<n + 1, i>>],
         NEW b, b = [id |-> n + 1, previous |-> None, indices |-> {}],
         NEW ob, NEW co, NEW re,
         NEW ob2, NEW co2, NEW re2, Given(ob, co, re, ob2, co2, re2, n, r.items, ws, r.pending)
  PROVE  Holds(ob2, co2, re2, n + 1, r, ws, b, n + 1) /\ ws = [i \in DOMAIN ws |-> ws[i]]
<1>0. /\ co2[n + 1] = ws /\ re2[n + 1] = r.pending
      /\ \A i \in Nat : ob2[<<n + 1, i>>] = r.items[i]
  BY Zenon DEF Given
<1>1. DOMAIN ws = DOMAIN r.items /\ ws = [i \in DOMAIN ws |-> ws[i]] /\ \A i \in DOMAIN ws : ws[i] = <<n + 1, i>>
  BY Zenon
<1>2. \A i \in DOMAIN ws : i \in Nat /\ Genuine(r.items[i])
  BY <1>1, SequenceFacts, Zenon DEF AllGenuine
<1>3. \A i \in DOMAIN ws : ws[i] \in Ids(n + 1) /\ Genuine(r.items[i]) /\ ob2[ws[i]] = r.items[i]
  BY <1>0, <1>1, <1>2, IdsLater, Zenon
<1>4. b.id = n + 1 /\ b.previous = None
  BY Zenon
<1>5. n + 1 \in 0 .. (n + 1)
  BY IdsLater
<1>6. QED
  BY <1>0, <1>1, <1>3, <1>4, <1>5, Zenon DEF Holds

---------------------------------------------------------------------------
(* The inductive invariant *)

(* The identities handed out stand for what the page, the view it keeps and the projector hold. *)
Known(object, content, records) ==
    /\ made \in Nat
    /\ Whole(stream)
    /\ vers = [i \in DOMAIN vers |-> vers[i]]
    /\ Holds(object, content, records, made, stream, vers, array, pendingVer)
    /\ retained # None => Holds(object, content, records, made, retained.stream, retained.vers, retained.array, retained.pendingVer)
    /\ projector = [session |-> projector.session, cache |-> projector.cache]
    /\ Cached(object, content, records, made, projector.session, projector.cache)
    /\ content[0] = <<>> /\ records[0] = <<>>

IInv == (\E object, content, records : Known(object, content, records)) /\ ProjectionIsFresh

LEMMA EmptyStream ==
  Whole(emptyStream) /\ AllGenuine(emptyStream.items) /\ emptyStream.items = <<>> /\ emptyStream.pending = <<>>
<1>1. emptyStream.items = <<>> /\ emptyStream.pending = <<>>
  BY DEF emptyStream
<1>2. IsSequence(emptyStream.items)
  <2>1. <<>> \in Seq({})
    OBVIOUS
  <2>2. QED
    BY <1>1, <2>1 DEF IsSequence
<1>3. AllGenuine(emptyStream.items)
  BY <1>1 DEF AllGenuine
<1>4. Whole(emptyStream)
  BY <1>2 DEF Whole, emptyStream
<1>5. QED
  BY <1>1, <1>3, <1>4

LEMMA NewProjector ==
  ASSUME NEW object, NEW content, NEW records, NEW n, NEW sessionId
  PROVE  Cached(object, content, records, n, sessionId, newProjector)
<1> DEFINE c == newProjector
<1>1. /\ c.array = None /\ c.vers = <<>> /\ c.entries = <<>> /\ c.pending = None /\ c.last = None /\ Shape(c)
  BY DEF newProjector, Shape
<1> HIDE DEF c
<1>2. DOMAIN c.vers = {} /\ DOMAIN c.entries = {}
  BY <1>1
<1>3. ItemsCached(object, content, n, sessionId, c)
  BY <1>1, <1>2, Zenon DEF ItemsCached
<1>4. PendingCached(records, n, c)
  BY <1>1, Zenon DEF PendingCached
<1>5. QED
  BY <1>1, <1>3, <1>4, Zenon DEF Cached, c

LEMMA InitKnown == Init => IInv
<1> SUFFICES ASSUME Init PROVE IInv
  OBVIOUS
<1> DEFINE nothing == [k \in Nat |-> <<>>]
<1>1. /\ stream = emptyStream /\ vers = <<>> /\ array.id = 1 /\ array.previous = None /\ pendingVer = 1 /\ made = 1
      /\ projector.cache = newProjector /\ retained = None /\ shown = None
      /\ projector = [session |-> projector.session, cache |-> projector.cache]
  BY DEF Init
<1>2. DOMAIN vers = {} /\ vers = [i \in DOMAIN vers |-> vers[i]]
  BY <1>1
<1>3. nothing[0] = <<>> /\ nothing[1] = <<>> /\ 1 \in 0 .. 1
  OBVIOUS
<1> HIDE DEF nothing
<1>4. Holds(nothing, nothing, nothing, 1, stream, vers, array, pendingVer)
  <2>1. DOMAIN vers = DOMAIN stream.items
    BY <1>1, EmptyStream
  <2>2. QED
    BY <1>1, <1>2, <1>3, <2>1, EmptyStream, Zenon DEF Holds
<1>5. Known(nothing, nothing, nothing)
  <2>1. 1 \in Nat
    OBVIOUS
  <2>2. QED
    BY <1>1, <1>2, <1>3, <1>4, <2>1, EmptyStream, NewProjector, Zenon DEF Known
<1>6. ProjectionIsFresh
  BY <1>1 DEF ProjectionIsFresh
<1>7. QED
  BY <1>5, <1>6, Zenon DEF IInv

(* Another state of the page, with what its objects stand for.             *)
LEMMA KnownNext ==
  ASSUME NEW object, NEW content, NEW records, Known(object, content, records),
         made' = made + 1, Whole(stream'), vers' = [i \in DOMAIN vers' |-> vers'[i]],
         projector' = projector, retained' = retained,
         NEW ob2, NEW co2, NEW re2, Given(object, content, records, ob2, co2, re2, made, stream'.items, vers', stream'.pending),
         Holds(ob2, co2, re2, made + 1, stream', vers', array', pendingVer')
  PROVE  Known(ob2, co2, re2)'
<1>1. /\ made \in Nat
      /\ retained # None => Holds(object, content, records, made, retained.stream, retained.vers, retained.array, retained.pendingVer)
      /\ projector = [session |-> projector.session, cache |-> projector.cache]
      /\ Cached(object, content, records, made, projector.session, projector.cache)
      /\ content[0] = <<>> /\ records[0] = <<>>
  BY Zenon DEF Known
<1>2. Later(object, content, records, ob2, co2, re2, made) /\ co2[0] = <<>> /\ re2[0] = <<>>
  BY <1>1, Zenon DEF Given
<1>3. retained' # None => Holds(ob2, co2, re2, made + 1, retained'.stream, retained'.vers, retained'.array, retained'.pendingVer)
  BY <1>1, <1>2, HoldsLater
<1>4. Cached(ob2, co2, re2, made + 1, projector'.session, projector'.cache)
  BY <1>1, <1>2, CachedLater
<1>5. made' \in Nat
  BY <1>1
<1>6. projector' = [session |-> projector'.session, cache |-> projector'.cache]
  BY <1>1, Zenon
<1>7. QED
  BY <1>2, <1>3, <1>4, <1>5, <1>6, Zenon DEF Known

(* An event of the broker: the touched objects and arrays are new.         *)
LEMMA ReceiveKnown ==
  ASSUME NEW object, NEW content, NEW records, Known(object, content, records), NEW e \in Events, Receive(e)
  PROVE  (\E ob2, co2, re2 : Known(ob2, co2, re2)') /\ shown' = shown
<1> DEFINE next == reduceEvent(stream, e)
           places == Touched(stream, e)
           isArray == NewArray(e)
           isPending == NewPending(stream, e)
<1>1. /\ next.ok /\ stream' = next /\ made' = made + 1
      /\ vers' = [i \in DOMAIN next.items |-> IF i \in places THEN <<made', i>> ELSE vers[i]]
      /\ array' = IF isArray THEN [id |-> made', previous |-> array.id, indices |-> places] ELSE array
      /\ pendingVer' = IF isPending THEN made' ELSE pendingVer
      /\ projector' = projector /\ retained' = retained /\ shown' = shown
  BY Zenon DEF Receive, Touched, NewArray, NewPending
<1>2. /\ made \in Nat /\ Whole(stream) /\ vers = [i \in DOMAIN vers |-> vers[i]]
      /\ Holds(object, content, records, made, stream, vers, array, pendingVer)
  BY Zenon DEF Known
<1>3. AllGenuine(stream.items)
  BY <1>2, Zenon DEF Holds, AllGenuine
<1>4. isArray \in BOOLEAN /\ isPending \in BOOLEAN
  BY DEF NewArray, NewPending
<1>5. ~ isArray => places = {}
  BY DEF NewArray, Touched, ItemKinds
<1> HIDE DEF next, places, isArray, isPending
<1>6. /\ Reduces(stream, next, places)
      /\ ~ isArray => next.items = stream.items
      /\ ~ isPending => next.pending = stream.pending
  BY <1>1, <1>2, <1>3, EventReduced DEF next, places, isArray, isPending
<1>7. PICK ob2, co2, re2 : Given(object, content, records, ob2, co2, re2, made, next.items, vers', next.pending)
  BY <1>2, HandedOut
<1> DEFINE ws == vers'
           b == array'
           qv == pendingVer'
<1>8. /\ ws = [i \in DOMAIN next.items |-> IF i \in places THEN <<made + 1, i>> ELSE vers[i]]
      /\ b = IF isArray THEN [id |-> made + 1, previous |-> array.id, indices |-> places] ELSE array
      /\ qv = IF isPending THEN made + 1 ELSE pendingVer
  BY <1>1, Zenon
<1>9. Holds(ob2, co2, re2, made + 1, next, ws, b, qv) /\ ws = [i \in DOMAIN ws |-> ws[i]]
  <2>1. Given(object, content, records, ob2, co2, re2, made, next.items, ws, next.pending)
    BY <1>7
  <2>2. Follows(made, stream, vers, array, pendingVer, next, places, isArray, isPending, ws, b, qv)
    BY <1>2, <1>5, <1>6, <1>8 DEF Follows
  <2> HIDE DEF ws, b, qv
  <2>3. QED
    BY <1>2, <1>4, <2>1, <2>2, HoldsNext
<1>10. Whole(stream')
  BY <1>1, <1>6, Zenon DEF Reduces
<1>11. Known(ob2, co2, re2)'
  <2>1. /\ Given(object, content, records, ob2, co2, re2, made, stream'.items, vers', stream'.pending)
        /\ Holds(ob2, co2, re2, made + 1, stream', vers', array', pendingVer')
        /\ vers' = [i \in DOMAIN vers' |-> vers'[i]]
    BY <1>1, <1>7, <1>9, Zenon
  <2>2. QED
    BY <1>1, <1>10, <2>1, KnownNext
<1>12. QED
  BY <1>1, <1>11, Zenon

(* A state that was not reduced from the one before: every object is new.  *)
LEMMA InstallKnown ==
  ASSUME NEW object, NEW content, NEW records, Known(object, content, records),
         NEW s, NEW new, Whole(new), AllGenuine(new.items), Install(s, new)
  PROVE  (\E ob2, co2, re2 : Known(ob2, co2, re2)') /\ shown' = shown
<1>1. /\ stream' = new /\ made' = made + 1 /\ vers' = [i \in DOMAIN new.items |-> <<made', i>>]
      /\ array' = [id |-> made', previous |-> None, indices |-> {}] /\ pendingVer' = made'
      /\ projector' = projector /\ retained' = retained /\ shown' = shown
  BY Zenon DEF Install
<1>2. made \in Nat /\ IsSequence(new.items)
  BY Zenon DEF Known, Whole
<1>3. PICK ob2, co2, re2 : Given(object, content, records, ob2, co2, re2, made, new.items, vers', new.pending)
  BY <1>2, HandedOut
<1> DEFINE ws == vers'
           b == array'
<1>4. ws = [i \in DOMAIN new.items |-> <<made + 1, i>>] /\ b = [id |-> made + 1, previous |-> None, indices |-> {}]
  BY <1>1, Zenon
<1>5. Holds(ob2, co2, re2, made + 1, new, ws, b, made + 1) /\ ws = [i \in DOMAIN ws |-> ws[i]]
  <2>1. Given(object, content, records, ob2, co2, re2, made, new.items, ws, new.pending)
    BY <1>3
  <2> HIDE DEF ws, b
  <2>2. QED
    BY <1>2, <1>4, <2>1, HoldsInstalled
<1>6. Known(ob2, co2, re2)'
  <2>1. /\ Given(object, content, records, ob2, co2, re2, made, stream'.items, vers', stream'.pending)
        /\ Holds(ob2, co2, re2, made + 1, stream', vers', array', pendingVer')
        /\ vers' = [i \in DOMAIN vers' |-> vers'[i]]
        /\ Whole(stream')
    BY <1>1, <1>3, <1>5, Zenon
  <2>2. QED
    BY <1>1, <2>1, KnownNext
<1>7. QED
  BY <1>1, <1>6, Zenon

(* The rows of a render.                                                   *)
LEMMA RenderKnown ==
  ASSUME NEW object, NEW content, NEW records, Known(object, content, records),
         NEW active \in BOOLEAN, NEW locale, NEW outbox, Render(active, locale, outbox)
  PROVE  Known(object, content, records)' /\ ProjectionIsFresh'
<1> DEFINE mine == retained # None /\ (retained # None => retained.session = session)
           now == [session |-> session, stream |-> stream, vers |-> vers, array |-> array, pendingVer |-> pendingVer,
                   locale |-> locale, outbox |-> outbox]
           empty == [now EXCEPT !.stream = emptyStream, !.vers = <<>>, !.array = [id |-> 0, previous |-> None, indices |-> {}],
                                !.pendingVer = 0, !.outbox = <<>>]
           view == IF active THEN now ELSE IF mine THEN retained ELSE empty
           memo == IF projector.session = view.session THEN projector ELSE [session |-> view.session, cache |-> newProjector]
           cache == nativeConversationModel(memo.cache, view, view.locale)
<1>1. /\ retained' = IF active \/ mine THEN view ELSE None
      /\ projector' = [memo EXCEPT !.cache = cache]
      /\ shown' = Rows(cache, view)
      /\ UNCHANGED data
  BY Zenon DEF Render
<1>2. /\ made \in Nat /\ Whole(stream) /\ vers = [i \in DOMAIN vers |-> vers[i]]
      /\ Holds(object, content, records, made, stream, vers, array, pendingVer)
      /\ retained # None => Holds(object, content, records, made, retained.stream, retained.vers, retained.array, retained.pendingVer)
      /\ projector = [session |-> projector.session, cache |-> projector.cache]
      /\ Cached(object, content, records, made, projector.session, projector.cache)
      /\ content[0] = <<>> /\ records[0] = <<>>
  BY Zenon DEF Known
<1>3. /\ now.stream = stream /\ now.vers = vers /\ now.array = array /\ now.pendingVer = pendingVer
      /\ empty.stream = emptyStream /\ empty.vers = <<>> /\ empty.array.id = 0 /\ empty.array.previous = None /\ empty.pendingVer = 0
  OBVIOUS
<1> HIDE DEF now, empty
<1>4. Holds(object, content, records, made, empty.stream, empty.vers, empty.array, empty.pendingVer)
  <2>1. DOMAIN empty.vers = {} /\ DOMAIN empty.stream.items = {} /\ empty.stream.pending = <<>> /\ 0 \in 0 .. made
    BY <1>2, <1>3, EmptyStream
  <2>2. QED
    BY <1>2, <1>3, <2>1, Zenon DEF Holds
<1>5. Holds(object, content, records, made, view.stream, view.vers, view.array, view.pendingVer)
  <2>1. CASE active
    BY <1>2, <1>3, <2>1, Zenon
  <2>2. CASE ~ active /\ mine
    BY <1>2, <2>2, Zenon
  <2>3. CASE ~ active /\ ~ mine
    BY <1>4, <2>3, Zenon
  <2>4. QED
    BY <2>1, <2>2, <2>3
<1> HIDE DEF view
<1>6. memo.session = view.session /\ memo = [session |-> memo.session, cache |-> memo.cache]
      /\ Cached(object, content, records, made, view.session, memo.cache)
  <2>1. CASE projector.session = view.session
    BY <1>2, <2>1, Zenon
  <2>2. CASE projector.session # view.session
    <3>1. memo = [session |-> view.session, cache |-> newProjector]
      BY <2>2
    <3>2. memo.session = view.session /\ memo.cache = newProjector /\ memo = [session |-> memo.session, cache |-> memo.cache]
      BY <3>1
    <3>3. QED
      BY <3>2, NewProjector, Zenon
  <2>3. QED
    BY <2>1, <2>2
<1> HIDE DEF memo
<1>7. cache = nativeConversationModel(memo.cache, view, view.locale)
  OBVIOUS
<1> HIDE DEF cache
<1>8. /\ Cached(object, content, records, made, view.session, cache)
      /\ cache.output = DirectItems(view.stream, view.locale)
      /\ cache.pendingRows = projectPending(view.stream, view.locale)
      /\ ShowsLastTurn(view.stream) => cache.last = LastTurn(view.stream, view.locale)
  <2>1. Answers(object, content, records, made, view, cache)
    BY <1>2, <1>5, <1>6, <1>7, ModelProjected, Zenon
  <2>2. QED
    BY <2>1, Zenon DEF Answers
<1>9. projector' = [session |-> view.session, cache |-> cache]
  BY <1>1, <1>6
<1>10. Known(object, content, records)'
  <2>1. /\ made' = made /\ stream' = stream /\ vers' = vers /\ array' = array /\ pendingVer' = pendingVer
    BY <1>1 DEF data
  <2>2. retained' # None =>
           Holds(object, content, records, made, retained'.stream, retained'.vers, retained'.array, retained'.pendingVer)
    BY <1>1, <1>5, Zenon
  <2>3. /\ projector' = [session |-> projector'.session, cache |-> projector'.cache]
        /\ projector'.session = view.session /\ projector'.cache = cache
    BY <1>9
  <2>4. QED
    BY <1>2, <1>8, <2>1, <2>2, <2>3, Zenon DEF Known
<1>11. ProjectionIsFresh'
  <2>1. /\ shown'.view = view /\ shown'.pending = cache.pendingRows
        /\ shown'.native = WithLastTurn(view.stream, view.locale, cache.output, cache.last)
    BY <1>1 DEF Rows
  <2>2. WithLastTurn(view.stream, view.locale, cache.output, cache.last)
          = WithLastTurn(view.stream, view.locale, DirectItems(view.stream, view.locale), LastTurn(view.stream, view.locale))
    BY <1>8, Zenon DEF WithLastTurn
  <2>3. QED
    BY <1>8, <2>1, <2>2, Zenon DEF ProjectionIsFresh
<1>12. QED
  BY <1>10, <1>11

(* A set of numbers has a least one.                                       *)
LEMMA LeastNumber ==
  ASSUME NEW T, T \subseteq Nat, T # {}
  PROVE  \E n \in T : \A m \in T : n <= m
<1> DEFINE R == OpToRel(<, Nat)
<1>1. IsWellFoundedOn(R, Nat)
  BY NatLessThanWellFounded
<1>2. \A n, m \in Nat : <<m, n>> \in R <=> m < n
  BY DEF OpToRel
<1> HIDE DEF R
<1>3. PICK n \in T : \A m \in T : ~ (<<m, n>> \in R)
  BY <1>1, WFMin
<1>4. \A m \in T : n <= m
  <2> SUFFICES ASSUME NEW m \in T PROVE n <= m
    OBVIOUS
  <2>1. n \in Nat /\ m \in Nat
    OBVIOUS
  <2>2. ~ (m < n)
    BY <1>2, <1>3, <2>1, Zenon
  <2>3. QED
    BY <2>1, <2>2
<1>5. QED
  BY <1>4

LEMMA Suffix ==
  ASSUME NEW q, IsSequence(q), AllGenuine(q), NEW first \in 1 .. Len(q)
  PROVE  IsSequence(SubSeq(q, first, Len(q))) /\ AllGenuine(SubSeq(q, first, Len(q)))
<1> DEFINE n == Len(q)
           rest == SubSeq(q, first, n)
<1>1. PICK S : q \in Seq(S)
  BY Zenon DEF IsSequence
<1>2. n \in Nat /\ DOMAIN q = 1 .. n /\ \A i \in 1 .. n : q[i] \in S
  BY <1>1
<1>3. first \in 1 .. n
  OBVIOUS
<1> HIDE DEF n
<1>4. first \in Int /\ n \in Int /\ (IF first <= n THEN n - first + 1 ELSE 0) = n - first + 1 /\ first .. n \subseteq 1 .. n
  BY <1>2, <1>3
<1>5. \A i \in first .. n : q[i] \in S
  BY <1>2, <1>4, Zenon
<1>6. /\ rest \in Seq(S) /\ Len(rest) = n - first + 1
      /\ \A i \in 1 .. n - first + 1 : rest[i] = q[first + i - 1]
  BY <1>4, <1>5
<1>7. \A i \in 1 .. n - first + 1 : first + i - 1 \in 1 .. n
  BY <1>2, <1>3
<1> HIDE DEF rest
<1>8. DOMAIN rest = 1 .. n - first + 1
  BY <1>6
<1>9. AllGenuine(rest)
  BY <1>2, <1>6, <1>7, <1>8, Zenon DEF AllGenuine
<1>10. IsSequence(rest)
  BY <1>6, Zenon DEF IsSequence
<1>11. QED
  BY <1>9, <1>10, Zenon DEF rest, n

(* The items of the last turn, all of them items.                          *)
LEMMA LastTurnOnly ==
  ASSUME NEW s, Whole(s), AllGenuine(s.items), s.items # <<>>,
         NEW first, first = CHOOSE i \in {j \in DOMAIN s.items : s.items[j].turn = s.items[Len(s.items)].turn} :
                              \A k \in {j \in DOMAIN s.items : s.items[j].turn = s.items[Len(s.items)].turn} : i <= k,
         NEW r, r = [s EXCEPT !.items = SubSeq(@, first, Len(@))]
  PROVE  Whole(r) /\ AllGenuine(r.items)
<1> DEFINE q == s.items
           last == {i \in DOMAIN q : q[i].turn = q[Len(q)].turn}
           rest == SubSeq(q, first, Len(q))
<1>1. IsSequence(q)
  BY Zenon DEF Whole
<1>2. PICK S : q \in Seq(S)
  BY <1>1, Zenon DEF IsSequence
<1>3. Len(q) \in Nat /\ Len(q) # 0 /\ DOMAIN q = 1 .. Len(q)
  BY <1>2
<1>4. Len(q) \in DOMAIN q
  BY <1>3
<1>5. last # {} /\ last \subseteq Nat /\ last \subseteq DOMAIN q
  <2>1. Len(q) \in last
    BY <1>4
  <2>2. QED
    BY <1>3, <2>1
<1>6. first \in last
  <2>1. \E n \in last : \A m \in last : n <= m
    <3> HIDE DEF last
    <3>1. QED
      BY <1>5, LeastNumber
  <2>2. first = CHOOSE i \in last : \A k \in last : i <= k
    OBVIOUS
  <2> HIDE DEF last
  <2>3. QED
    BY <2>1, <2>2
<1>7. first \in 1 .. Len(q)
  BY <1>3, <1>5, <1>6, Zenon
<1>8. IsSequence(rest) /\ AllGenuine(rest)
  <2>1. AllGenuine(q)
    OBVIOUS
  <2> HIDE DEF last, q
  <2>2. QED
    BY <1>1, <1>7, <2>1, Suffix
<1> HIDE DEF rest
<1>11. r = [s EXCEPT !.items = rest]
  BY DEF rest, q
<1>12. r.items = rest
  BY <1>11 DEF Whole
<1>13. Whole(r)
  BY <1>8, <1>11, <1>12 DEF Whole
<1>14. QED
  BY <1>8, <1>12, <1>13, Zenon

LEMMA NextKnown ==
  ASSUME IInv, [Next]_vars
  PROVE  IInv'
<1>1. PICK object, content, records : Known(object, content, records)
  BY Zenon DEF IInv
<1>2. ProjectionIsFresh
  BY Zenon DEF IInv
<1>3. Whole(stream) /\ AllGenuine(stream.items)
  BY <1>1, Zenon DEF Known, Holds, AllGenuine
<1>4. shown' = shown => ProjectionIsFresh'
  BY <1>2 DEF ProjectionIsFresh
<1>5. CASE \E e \in Events : Receive(e)
  <2>1. PICK e \in Events : Receive(e)
    BY <1>5, Zenon
  <2>2. (\E ob2, co2, re2 : Known(ob2, co2, re2)') /\ shown' = shown
    BY <1>1, <2>1, ReceiveKnown, Zenon
  <2>3. QED
    BY <1>4, <2>2, Zenon DEF IInv
<1>6. CASE Reseed
  <2> DEFINE first == CHOOSE i \in {j \in DOMAIN stream.items : stream.items[j].turn = stream.items[Len(stream.items)].turn} :
                        \A k \in {j \in DOMAIN stream.items : stream.items[j].turn = stream.items[Len(stream.items)].turn} : i <= k
             new == [stream EXCEPT !.items = SubSeq(@, first, Len(@))]
  <2>1. stream.items # <<>> /\ Install(session, new)
    BY <1>6, Zenon DEF Reseed
  <2>2. Whole(new) /\ AllGenuine(new.items)
    BY <1>3, <2>1, LastTurnOnly
  <2> HIDE DEF new
  <2>3. (\E ob2, co2, re2 : Known(ob2, co2, re2)') /\ shown' = shown
    BY <1>1, <2>1, <2>2, InstallKnown, Zenon
  <2>4. QED
    BY <1>4, <2>3, Zenon DEF IInv
<1>7. CASE \E s \in Sessions : Switch(s)
  <2>1. PICK s : Install(s, emptyStream)
    BY <1>7, Zenon DEF Switch
  <2>2. (\E ob2, co2, re2 : Known(ob2, co2, re2)') /\ shown' = shown
    BY <1>1, <2>1, EmptyStream, InstallKnown, Zenon
  <2>3. QED
    BY <1>4, <2>2, Zenon DEF IInv
<1>8. CASE \E active \in BOOLEAN, locale \in Locales, outbox \in Outboxes : Render(active, locale, outbox)
  <2>1. PICK active \in BOOLEAN, locale \in Locales, outbox \in Outboxes : Render(active, locale, outbox)
    BY <1>8, Zenon
  <2>2. Known(object, content, records)' /\ ProjectionIsFresh'
    BY <1>1, <2>1, RenderKnown, Zenon
  <2>3. QED
    BY <2>2, Zenon DEF IInv
<1>9. CASE UNCHANGED vars
  <2>1. Known(object, content, records)' /\ shown' = shown
    BY <1>1, <1>9 DEF vars, Known
  <2>2. QED
    BY <1>4, <2>1, Zenon DEF IInv
<1>10. QED
  BY <1>5, <1>6, <1>7, <1>8, <1>9, Zenon DEF Next

(* The rows on screen are the rows the state gives, computed anew: whatever
   events, seeds, switches and renders came in between, no cache of
   createNativeTimelineProjector answers with a row of an earlier state, of
   another language or of another conversation. *)
THEOREM FreshCorrect == Spec => []ProjectionIsFresh
<1>1. Init => IInv
  BY InitKnown
<1>2. IInv /\ [Next]_vars => IInv'
  BY NextKnown
<1>3. IInv => ProjectionIsFresh
  BY DEF IInv
<1>4. QED
  BY <1>1, <1>2, <1>3, PTL DEF Spec

---------------------------------------------------------------------------
(* Numbers *)

(* A set of numbers with 0 and the successor of each of its members.       *)
LEMMA AllNumbers ==
  ASSUME NEW Good, 0 \in Good, \A n \in Nat : n \in Good => n + 1 \in Good
  PROVE  \A n \in Nat : n \in Good
<1> DEFINE Bad == {n \in Nat : n \notin Good}
<1>1. SUFFICES ASSUME Bad # {} PROVE FALSE
  OBVIOUS
<1>2. Bad \subseteq Nat
  OBVIOUS
<1>3. PICK n \in Bad : \A m \in Bad : n <= m
  <2> HIDE DEF Bad
  <2>1. QED
    BY <1>1, <1>2, LeastNumber
<1>4. n \in Nat /\ n \notin Good /\ n # 0
  BY <1>3
<1>5. n - 1 \in Nat /\ ~ (n <= n - 1)
  BY <1>4
<1>6. n - 1 \in Good
  BY <1>3, <1>5
<1>7. (n - 1) + 1 \in Good
  BY <1>5, <1>6, Zenon
<1>8. QED
  BY <1>4, <1>7

LEMMA MinOf ==
  ASSUME NEW T, T \subseteq Nat, T # {}
  PROVE  Min(T) \in T /\ \A m \in T : Min(T) <= m
<1>1. \E n \in T : \A m \in T : n <= m
  BY LeastNumber
<1>2. QED
  BY <1>1, Zenon DEF Min

(* A function that is defined from its value at the number before.         *)
IsLoop(f, start, step, n) ==
    f = [k \in 0 .. n |-> IF k = 0 THEN start ELSE step[k][f[k - 1]]]

LEMMA LoopLonger ==
  ASSUME NEW S, NEW start, NEW step, NEW n \in Nat, NEW f \in [0 .. n -> S], IsLoop(f, start, step, n),
         step[n + 1] \in [S -> S]
  PROVE  \E g \in [0 .. n + 1 -> S] : IsLoop(g, start, step, n + 1)
<1> DEFINE g == [k \in 0 .. n + 1 |-> IF k = n + 1 THEN step[k][f[n]] ELSE f[k]]
<1>1. n \in 0 .. n /\ f[n] \in S /\ n + 1 # n /\ n \in 0 .. n + 1
  OBVIOUS
<1>2. g[n] = f[n]
  BY <1>1, Zenon
<1>3. \A k \in 0 .. n + 1 : k # n + 1 => k \in 0 .. n /\ (k # 0 => k - 1 \in 0 .. n /\ k - 1 \in 0 .. n + 1 /\ k - 1 # n + 1)
  OBVIOUS
<1>4. n + 1 # 0 /\ (n + 1) - 1 = n
  OBVIOUS
<1>5. \A k \in 0 .. n + 1 : g[k] = IF k = 0 THEN start ELSE step[k][g[k - 1]]
  <2> TAKE k \in 0 .. n + 1
  <2>1. CASE k = n + 1
    BY <1>2, <1>4, <2>1, Zenon
  <2>2. CASE k # n + 1
    <3>1. k \in 0 .. n /\ g[k] = f[k] /\ (k # 0 => g[k - 1] = f[k - 1])
      BY <1>3, <2>2, Zenon
    <3>2. QED
      BY <3>1, Zenon DEF IsLoop
  <2>3. QED
    BY <2>1, <2>2
<1>6. \A k \in 0 .. n + 1 : g[k] \in S
  <2> TAKE k \in 0 .. n + 1
  <2>1. CASE k = n + 1
    <3>1. g[k] = step[n + 1][f[n]]
      BY <2>1, Zenon
    <3>2. QED
      BY <1>1, <3>1
  <2>2. CASE k # n + 1
    <3>1. k \in 0 .. n /\ g[k] = f[k]
      BY <1>3, <2>2, Zenon
    <3>2. QED
      BY <3>1
  <2>3. QED
    BY <2>1, <2>2
<1>7. g = [k \in 0 .. n + 1 |-> g[k]] /\ g \in [0 .. n + 1 -> S]
  BY <1>6, Zenon
<1> HIDE DEF g
<1>8. g = [k \in 0 .. n + 1 |-> IF k = 0 THEN start ELSE step[k][g[k - 1]]]
  BY <1>5, <1>7, Zenon
<1>9. QED
  BY <1>7, <1>8, Zenon DEF IsLoop

LEMMA LoopExists ==
  ASSUME NEW S, NEW start \in S, NEW step, NEW size \in Nat, \A k \in 1 .. size : step[k] \in [S -> S]
  PROVE  \E f \in [0 .. size -> S] : IsLoop(f, start, step, size)
<1> DEFINE Good == {n \in Nat : n <= size => \E f \in [0 .. n -> S] : IsLoop(f, start, step, n)}
<1>1. 0 \in Good
  <2> DEFINE f == [k \in 0 .. 0 |-> start]
  <2>1. \A k \in 0 .. 0 : k = 0
    OBVIOUS
  <2>2. f = [k \in 0 .. 0 |-> IF k = 0 THEN start ELSE step[k][f[k - 1]]]
    BY <2>1, Zenon
  <2>3. IsLoop(f, start, step, 0) /\ f \in [0 .. 0 -> S]
    BY <2>2, Zenon DEF IsLoop
  <2>4. QED
    BY <2>3
<1>2. \A n \in Nat : n \in Good => n + 1 \in Good
  <2> SUFFICES ASSUME NEW n \in Nat, n \in Good, n + 1 <= size
               PROVE  \E f \in [0 .. n + 1 -> S] : IsLoop(f, start, step, n + 1)
    OBVIOUS
  <2>1. n <= size /\ n + 1 \in 1 .. size
    OBVIOUS
  <2>2. PICK f \in [0 .. n -> S] : IsLoop(f, start, step, n)
    BY <2>1
  <2>3. step[n + 1] \in [S -> S]
    BY <2>1, Zenon
  <2>4. QED
    BY <2>2, <2>3, LoopLonger
<1>3. size \in Good
  <2> HIDE DEF Good
  <2>1. QED
    BY <1>1, <1>2, AllNumbers
<1>4. size <= size
  OBVIOUS
<1>5. QED
  BY <1>3, <1>4, Zenon

---------------------------------------------------------------------------
(* Sequences *)

LEMMA Joint ==
  ASSUME NEW p, NEW q, IsSequence(p), IsSequence(q)
  PROVE  /\ IsSequence(p \o q) /\ Len(p \o q) = Len(p) + Len(q)
         /\ \A i \in 1 .. Len(p) : (p \o q)[i] = p[i]
         /\ \A i \in 1 .. Len(q) : (p \o q)[Len(p) + i] = q[i]
<1>1. PICK S : p \in Seq(S)
  BY Zenon DEF IsSequence
<1>2. PICK T : q \in Seq(T)
  BY Zenon DEF IsSequence
<1> DEFINE U == S \cup T
<1>3. p \in Seq(U) /\ q \in Seq(U)
  BY <1>1, <1>2, SeqMonotonic
<1> HIDE DEF U
<1>4. /\ p \o q \in Seq(U) /\ Len(p \o q) = Len(p) + Len(q)
      /\ \A i \in 1 .. Len(p) + Len(q) : (p \o q)[i] = IF i <= Len(p) THEN p[i] ELSE q[i - Len(p)]
  BY <1>3, ConcatProperties
<1>5. Len(p) \in Nat /\ Len(q) \in Nat
  BY SequenceFacts
<1>6. \A i \in 1 .. Len(p) : i \in 1 .. Len(p) + Len(q) /\ i <= Len(p)
  BY <1>5
<1>7. \A i \in 1 .. Len(q) : Len(p) + i \in 1 .. Len(p) + Len(q) /\ ~ (Len(p) + i <= Len(p)) /\ Len(p) + i - Len(p) = i
  BY <1>5
<1>8. \A i \in 1 .. Len(p) : (p \o q)[i] = p[i]
  BY <1>4, <1>6, Zenon
<1>9. \A i \in 1 .. Len(q) : (p \o q)[Len(p) + i] = q[i]
  <2> TAKE i \in 1 .. Len(q)
  <2> DEFINE k == Len(p) + i
  <2>1. k \in 1 .. Len(p) + Len(q) /\ ~ (k <= Len(p)) /\ k - Len(p) = i
    BY <1>7
  <2> HIDE DEF k
  <2>2. (p \o q)[k] = q[i]
    BY <1>4, <2>1, Zenon
  <2>3. QED
    BY <2>2 DEF k
<1>10. QED
  BY <1>4, <1>8, <1>9, Zenon DEF IsSequence

(* A place of a joint is one of either part.                               *)
LEMMA JointPlaces ==
  ASSUME NEW m \in Nat, NEW n \in Nat, NEW i \in 1 .. m + n, i \notin 1 .. m
  PROVE  \E j \in 1 .. n : i = m + j
<1>1. i - m \in 1 .. n /\ i = m + (i - m)
  OBVIOUS
<1>2. QED
  BY <1>1

LEMMA Slice ==
  ASSUME NEW q, IsSequence(q), NEW m \in 0 .. Len(q), NEW n \in m .. Len(q)
  PROVE  /\ IsSequence(SubSeq(q, m + 1, n)) /\ Len(SubSeq(q, m + 1, n)) = n - m
         /\ \A i \in 1 .. n - m : SubSeq(q, m + 1, n)[i] = q[m + i]
<1>1. PICK S : q \in Seq(S)
  BY Zenon DEF IsSequence
<1>2. Len(q) \in Nat /\ m \in Int /\ n \in Int /\ m + 1 \in Int
  BY SequenceFacts
<1>3. \A i \in m + 1 .. n : q[i] \in S
  <2> TAKE i \in m + 1 .. n
  <2>1. i \in 1 .. Len(q)
    BY <1>2
  <2>2. QED
    BY <1>1, <2>1, ElementOfSeq
<1>4. /\ SubSeq(q, m + 1, n) \in Seq(S)
      /\ Len(SubSeq(q, m + 1, n)) = IF m + 1 <= n THEN n - (m + 1) + 1 ELSE 0
      /\ \A i \in 1 .. n - (m + 1) + 1 : SubSeq(q, m + 1, n)[i] = q[m + 1 + i - 1]
  BY <1>2, <1>3, SubSeqProperties
<1>5. (IF m + 1 <= n THEN n - (m + 1) + 1 ELSE 0) = n - m /\ n - (m + 1) + 1 = n - m
  BY <1>2
<1>6. \A i \in 1 .. n - m : m + 1 + i - 1 = m + i
  BY <1>2
<1>7. QED
  BY <1>4, <1>5, <1>6, Zenon DEF IsSequence

LEMMA Single ==
  ASSUME NEW x PROVE IsSequence(<<x>>) /\ Len(<<x>>) = 1 /\ <<x>>[1] = x
<1>1. <<x>> \in Seq({x})
  OBVIOUS
<1>2. QED
  BY <1>1, Zenon DEF IsSequence

LEMMA Nothing == IsSequence(<<>>) /\ Len(<<>>) = 0
<1>1. <<>> \in Seq({})
  OBVIOUS
<1>2. Len(<<>>) = 0
  OBVIOUS
<1>3. QED
  BY <1>1, <1>2, Zenon DEF IsSequence

---------------------------------------------------------------------------
(* Sorting *)

Times == Nat \cup {None}

LEMMA RowTime == ASSUME NEW row PROVE itemTime(row) \in Times
  BY PresentationAssumption DEF itemTime, Times

LEMMA SoonerOrders ==
  ASSUME NEW rows, NEW i \in Nat, NEW j \in Nat
  PROVE  /\ ~ Sooner(rows, i, i)
         /\ i # j => Sooner(rows, i, j) \/ Sooner(rows, j, i)
         /\ \A k \in Nat : Sooner(rows, k, i) /\ Sooner(rows, i, j) => Sooner(rows, k, j)
<1> DEFINE time(k) == itemTime(rows[k])
<1>1. \A k : time(k) \in Times
  BY RowTime
<1>2. \A k, l : Sooner(rows, k, l) <=> \/ time(k) # None /\ (time(l) = None \/ time(k) < time(l))
                                       \/ time(k) = time(l) /\ k < l
  BY Zenon DEF Sooner
<1>3. None \notin Nat
  BY PresentationAssumption
<1> HIDE DEF time
<1>4. ~ Sooner(rows, i, i)
  BY <1>1, <1>2, <1>3 DEF Times
<1>5. i # j => Sooner(rows, i, j) \/ Sooner(rows, j, i)
  BY <1>1, <1>2, <1>3 DEF Times
<1>6. \A k \in Nat : Sooner(rows, k, i) /\ Sooner(rows, i, j) => Sooner(rows, k, j)
  BY <1>1, <1>2, <1>3 DEF Times
<1>7. QED
  BY <1>4, <1>5, <1>6

Rank(rows, i) == Cardinality({j \in DOMAIN rows : Sooner(rows, j, i)}) + 1

LEMMA RankFacts ==
  ASSUME NEW rows, IsSequence(rows), NEW i \in DOMAIN rows, NEW j \in DOMAIN rows
  PROVE  /\ Rank(rows, i) \in 1 .. Len(rows)
         /\ Sooner(rows, i, j) => Rank(rows, i) < Rank(rows, j)
<1> DEFINE size == Len(rows)
           before(k) == {l \in 1 .. size : Sooner(rows, l, k)}
<1>1. size \in Nat /\ DOMAIN rows = 1 .. size
  BY SequenceFacts
<1>2. Rank(rows, i) = Cardinality(before(i)) + 1 /\ Rank(rows, j) = Cardinality(before(j)) + 1
  BY <1>1 DEF Rank
<1>3. i \in Nat /\ j \in Nat /\ i \in 1 .. size /\ 1 .. size \subseteq Nat
  BY <1>1
<1> HIDE DEF size
<1>4. IsFiniteSet(1 .. size) /\ Cardinality(1 .. size) = size
  BY <1>1, FS_Interval
<1>5. before(i) \subseteq 1 .. size /\ before(j) \subseteq 1 .. size
  OBVIOUS
<1>6. i \notin before(i)
  BY <1>3, SoonerOrders
<1>7. Sooner(rows, i, j) => i \in before(j) /\ before(i) \subseteq before(j)
  <2> SUFFICES ASSUME Sooner(rows, i, j) PROVE i \in before(j) /\ before(i) \subseteq before(j)
    OBVIOUS
  <2>1. \A k \in Nat : Sooner(rows, k, i) => Sooner(rows, k, j)
    BY <1>3, SoonerOrders
  <2>2. QED
    BY <1>3, <2>1
<1> DEFINE A == before(i)
           B == before(j)
<1> HIDE DEF before, A, B
<1>8. /\ A \subseteq 1 .. size /\ B \subseteq 1 .. size /\ i \notin A
      /\ Sooner(rows, i, j) => i \in B /\ A \subseteq B
      /\ Rank(rows, i) = Cardinality(A) + 1 /\ Rank(rows, j) = Cardinality(B) + 1
  BY <1>2, <1>5, <1>6, <1>7, Zenon DEF A, B
<1>9. /\ IsFiniteSet(A) /\ Cardinality(A) \in Nat /\ Cardinality(A) <= size /\ Cardinality(A) # size
      /\ IsFiniteSet(B) /\ Cardinality(B) \in Nat
  <2>1. IsFiniteSet(A) /\ Cardinality(A) <= size /\ (size = Cardinality(A) => 1 .. size = A)
    BY <1>4, <1>8, FS_Subset
  <2>2. IsFiniteSet(B)
    BY <1>4, <1>8, FS_Subset
  <2>3. Cardinality(A) # size
    BY <1>3, <1>8, <2>1, Zenon
  <2>4. QED
    BY <2>1, <2>2, <2>3, FS_CardinalityType
<1>10. Sooner(rows, i, j) => Cardinality(A) < Cardinality(B)
  <2> SUFFICES ASSUME Sooner(rows, i, j) PROVE Cardinality(A) < Cardinality(B)
    OBVIOUS
  <2>1. A \in SUBSET B
    BY <1>8, Zenon
  <2>2. Cardinality(A) <= Cardinality(B) /\ (Cardinality(B) = Cardinality(A) => B = A)
    BY <1>9, <2>1, FS_Subset
  <2>3. A # B
    BY <1>8, Zenon
  <2>4. QED
    BY <1>9, <2>2, <2>3
<1>11. Rank(rows, i) \in 1 .. size
  BY <1>1, <1>8, <1>9
<1>12. Sooner(rows, i, j) => Rank(rows, i) < Rank(rows, j)
  BY <1>8, <1>9, <1>10
<1>13. QED
  BY <1>11, <1>12 DEF size

(* Every place has a row, every row a place, and earlier rows are in front. *)
SortedBy(order, dated, rows) ==
    /\ IsSequence(dated) /\ Len(dated) = Len(rows)
    /\ \A k \in DOMAIN rows : order[k] \in DOMAIN rows /\ dated[k] = rows[order[k]]
    /\ \A k, l \in DOMAIN rows : order[k] = order[l] => k = l
    /\ \A i \in DOMAIN rows : \E k \in DOMAIN rows : order[k] = i
    /\ \A k, l \in DOMAIN rows : k < l => Sooner(rows, order[k], order[l])

LEMMA SortedFacts ==
  ASSUME NEW rows, IsSequence(rows)
  PROVE  \E order : SortedBy(order, Sorted(rows), rows)
<1> DEFINE size == Len(rows)
           rank == [i \in DOMAIN rows |-> Cardinality({j \in DOMAIN rows : Sooner(rows, j, i)}) + 1]
           order == [k \in DOMAIN rows |-> CHOOSE i \in DOMAIN rows : rank[i] = k]
           dated == Sorted(rows)
<1>1. size \in Nat /\ DOMAIN rows = 1 .. size /\ 1 .. size \subseteq Nat
  BY SequenceFacts
<1>2. dated = [k \in DOMAIN rows |-> rows[order[k]]]
  BY DEF Sorted
<1>3. \A i \in DOMAIN rows : rank[i] = Rank(rows, i)
  BY Zenon DEF Rank
<1>4. rank = [i \in DOMAIN rows |-> rank[i]] /\ DOMAIN rank = DOMAIN rows
  BY Zenon
<1>5. \A k \in DOMAIN rows : order[k] = CHOOSE i \in DOMAIN rows : rank[i] = k
  BY Zenon
<1> HIDE DEF rank, order, dated
<1>6. \A i, j \in DOMAIN rows : rank[i] \in 1 .. size /\ (Sooner(rows, i, j) => rank[i] < rank[j])
  BY <1>3, RankFacts, Zenon DEF size
<1>7. \A i, j \in DOMAIN rows : rank[i] = rank[j] => i = j
  <2> SUFFICES ASSUME NEW i \in DOMAIN rows, NEW j \in DOMAIN rows, rank[i] = rank[j], i # j PROVE FALSE
    OBVIOUS
  <2>1. Sooner(rows, i, j) \/ Sooner(rows, j, i)
    BY <1>1, SoonerOrders
  <2>2. rank[i] \in Nat /\ (rank[i] < rank[j] \/ rank[j] < rank[i])
    BY <1>1, <1>6, <2>1
  <2>3. QED
    BY <2>2
<1> DEFINE D == 1 .. size
<1>8. rank \in Injection(D, D)
  <2>1. rank \in [D -> D]
    BY <1>1, <1>4, <1>6
  <2>2. QED
    BY <1>1, <1>7, <2>1, Zenon DEF Injection, IsInjective
<1>9. \A k \in DOMAIN rows : \E i \in DOMAIN rows : rank[i] = k
  <2>1. IsFiniteSet(D)
    BY <1>1, FS_Interval
  <2>2. rank \in Surjection(D, D)
    BY <1>8, <2>1, FS_Injection
  <2>3. QED
    BY <1>1, <2>2, Zenon DEF Surjection
<1>10. \A k \in DOMAIN rows : order[k] \in DOMAIN rows /\ rank[order[k]] = k
  BY <1>5, <1>9, Zenon
<1>11. \A i \in DOMAIN rows : rank[i] \in DOMAIN rows /\ order[rank[i]] = i
  <2> TAKE i \in DOMAIN rows
  <2>1. rank[i] \in DOMAIN rows
    BY <1>1, <1>6, Zenon
  <2>2. QED
    BY <1>7, <1>10, <2>1, Zenon
<1>12. \A k, l \in DOMAIN rows : k < l => Sooner(rows, order[k], order[l])
  <2> SUFFICES ASSUME NEW k \in DOMAIN rows, NEW l \in DOMAIN rows, k < l, ~ Sooner(rows, order[k], order[l]) PROVE FALSE
    OBVIOUS
  <2>1. order[k] # order[l] /\ k \in Nat /\ l \in Nat
    BY <1>1, <1>10
  <2>2. Sooner(rows, order[l], order[k])
    <3>1. order[k] \in Nat /\ order[l] \in Nat
      BY <1>1, <1>10, Zenon
    <3>2. QED
      BY <2>1, <3>1, SoonerOrders
  <2>3. l < k
    BY <1>6, <1>10, <2>2, Zenon
  <2>4. QED
    BY <2>1, <2>3
<1>13. IsSequence(dated) /\ Len(dated) = size
  <2>1. DOMAIN dated = 1 .. size /\ dated = [k \in 1 .. size |-> dated[k]]
    BY <1>1, <1>2, Zenon
  <2>2. IsSequence(dated)
    BY <1>1, <2>1, FunctionIsSequence
  <2>3. QED
    BY <1>1, <2>1, <2>2, SequenceFacts
<1>14. \A k \in DOMAIN rows : dated[k] = rows[order[k]]
  BY <1>2, Zenon
<1>15. \A k, l \in DOMAIN rows : order[k] = order[l] => k = l
  BY <1>10, Zenon
<1>16. SortedBy(order, dated, rows)
  BY <1>10, <1>11, <1>12, <1>13, <1>14, <1>15, Zenon DEF SortedBy, size
<1>17. QED
  BY <1>16 DEF dated

---------------------------------------------------------------------------
(* Merging *)

InOrder(dated) ==
    \A k, l \in 1 .. Len(dated) : k < l /\ itemTime(dated[l]) # None =>
        itemTime(dated[k]) # None /\ itemTime(dated[k]) <= itemTime(dated[l])

LEMMA SortedInOrder ==
  ASSUME NEW rows, NEW order, NEW dated, IsSequence(rows), SortedBy(order, dated, rows)
  PROVE  InOrder(dated)
<1>1. DOMAIN rows = 1 .. Len(dated)
  BY SequenceFacts, Zenon DEF SortedBy
<1>2. SUFFICES ASSUME NEW k \in DOMAIN rows, NEW l \in DOMAIN rows, k < l, itemTime(dated[l]) # None
               PROVE  itemTime(dated[k]) # None /\ itemTime(dated[k]) <= itemTime(dated[l])
  BY <1>1, Zenon DEF InOrder
<1>3. Sooner(rows, order[k], order[l]) /\ dated[k] = rows[order[k]] /\ dated[l] = rows[order[l]]
  BY <1>2, Zenon DEF SortedBy
<1> DEFINE s == itemTime(dated[k])
           t == itemTime(dated[l])
<1>4. s \in Times /\ t \in Times
  BY RowTime
<1>5. (s # None /\ (t = None \/ s < t)) \/ s = t
  BY <1>3, Zenon DEF Sooner
<1>6. t # None
  BY <1>2
<1> HIDE DEF s, t
<1>7. s # None /\ s <= t
  BY <1>4, <1>5, <1>6 DEF Times
<1>8. QED
  BY <1>7 DEF s, t

LEMMA DueEarlier ==
  ASSUME NEW dated, InOrder(dated), NEW k \in 1 .. Len(dated), NEW l \in 1 .. Len(dated), k < l,
         NEW row, Due(dated[l], row)
  PROVE  Due(dated[k], row)
<1> DEFINE s == itemTime(dated[k])
           t == itemTime(dated[l])
           u == itemTime(row)
<1>1. s \in Times /\ t \in Times /\ u \in Times
  BY RowTime
<1>2. t # None /\ u # None /\ t <= u
  BY Zenon DEF Due
<1>3. s # None /\ s <= t
  BY <1>2, Zenon DEF InOrder
<1> HIDE DEF s, t, u
<1>4. s <= u
  BY <1>1, <1>2, <1>3, PresentationAssumption DEF Times
<1>5. QED
  BY <1>2, <1>3, <1>4, Zenon DEF Due, s, u

(* Where the loop over the rows of the journal is after the first n of them. *)
Stops(native, dated, c, n) ==
    {k \in c .. Len(dated) : k = Len(dated) \/ ~ Due(dated[k + 1], native[n])}

Loop(cursor, native, dated) ==
    /\ cursor \in [0 .. Len(native) -> 0 .. Len(dated)] /\ cursor[0] = 0
    /\ \A n \in 1 .. Len(native) : cursor[n] = Min(Stops(native, dated, cursor[n - 1], n))

LEMMA StopFacts ==
  ASSUME NEW native, NEW dated, Len(dated) \in Nat, NEW c \in 0 .. Len(dated), NEW n
  PROVE  LET stop == Min(Stops(native, dated, c, n))
         IN  /\ stop \in c .. Len(dated) /\ stop \in 0 .. Len(dated)
             /\ stop = Len(dated) \/ ~ Due(dated[stop + 1], native[n])
             /\ \A k \in c + 1 .. stop : Due(dated[k], native[n])
<1> DEFINE stops == Stops(native, dated, c, n)
           stop == Min(stops)
<1>1. Len(dated) \in stops /\ stops \subseteq c .. Len(dated) /\ stops \subseteq Nat
  BY DEF Stops
<1>2. stop \in stops /\ \A k \in stops : stop <= k
  <2> HIDE DEF stops
  <2>1. QED
    BY <1>1, MinOf
<1>3. stop = Len(dated) \/ ~ Due(dated[stop + 1], native[n])
  BY <1>2 DEF Stops
<1> HIDE DEF stop
<1>4. \A k \in c + 1 .. stop : Due(dated[k], native[n])
  <2> SUFFICES ASSUME NEW k \in c + 1 .. stop, ~ Due(dated[k], native[n]) PROVE FALSE
    OBVIOUS
  <2>1. stop \in c .. Len(dated)
    BY <1>1, <1>2
  <2> DEFINE l == k - 1
  <2>2. l \in c .. Len(dated) /\ l + 1 = k /\ ~ (stop <= l)
    BY <2>1
  <2> HIDE DEF l
  <2>3. l \in stops
    BY <2>2, Zenon DEF Stops
  <2>4. QED
    BY <1>2, <2>2, <2>3
<1>5. stop \in c .. Len(dated) /\ stop \in 0 .. Len(dated)
  BY <1>1, <1>2
<1>6. QED
  BY <1>3, <1>4, <1>5, Zenon DEF stop

LEMMA LoopFacts ==
  ASSUME NEW native, NEW dated, Len(native) \in Nat, Len(dated) \in Nat
  PROVE  LET loop == CHOOSE f : f = [n \in 0 .. Len(native) |->
                         IF n = 0 THEN 0
                         ELSE Min({k \in f[n - 1] .. Len(dated) : k = Len(dated) \/ ~ Due(dated[k + 1], native[n])})]
         IN  Loop(loop, native, dated)
<1> DEFINE N == Len(native)
           L == Len(dated)
           step == [n \in 1 .. N |-> [c \in 0 .. L |-> Min(Stops(native, dated, c, n))]]
           IsIt(f) == f = [n \in 0 .. N |-> IF n = 0 THEN 0
                             ELSE Min({k \in f[n - 1] .. L : k = L \/ ~ Due(dated[k + 1], native[n])})]
           loop == CHOOSE f : IsIt(f)
<1>1. \A n \in 1 .. N : step[n] \in [0 .. L -> 0 .. L]
  <2> TAKE n \in 1 .. N
  <2>1. \A c \in 0 .. L : Min(Stops(native, dated, c, n)) \in 0 .. L
    BY StopFacts
  <2>2. QED
    BY <2>1
<1>2. \A n \in 1 .. N, c \in 0 .. L : step[n][c] = Min(Stops(native, dated, c, n))
  BY Zenon
<1>3. 0 \in 0 .. L /\ N \in Nat
  OBVIOUS
<1>4. \A n \in 0 .. N : n # 0 => n - 1 \in 0 .. N /\ n \in 1 .. N
  OBVIOUS
<1> HIDE DEF step, N, L
<1>5. PICK f \in [0 .. N -> 0 .. L] : IsLoop(f, 0, step, N)
  BY <1>1, <1>3, LoopExists
<1>6. \A n \in 0 .. N : f[n] = IF n = 0 THEN 0 ELSE Min({k \in f[n - 1] .. L : k = L \/ ~ Due(dated[k + 1], native[n])})
  <2> TAKE n \in 0 .. N
  <2>1. f[n] = IF n = 0 THEN 0 ELSE step[n][f[n - 1]]
    BY <1>5, Zenon DEF IsLoop
  <2>2. n # 0 => step[n][f[n - 1]] = Min(Stops(native, dated, f[n - 1], n))
    BY <1>2, <1>4
  <2>3. QED
    BY <2>1, <2>2, Zenon DEF Stops, L
<1>7. IsIt(f)
  BY <1>6, Zenon
<1>8. IsIt(loop)
  BY <1>7, Zenon
<1> HIDE DEF loop
<1>9. \A n \in 0 .. N : loop[n] = IF n = 0 THEN 0 ELSE Min(Stops(native, dated, loop[n - 1], n))
  BY <1>8, Zenon DEF Stops, L
<1>10. loop = [n \in 0 .. N |-> loop[n]]
  BY <1>8, Zenon
<1>11. \A n \in 0 .. N : loop[n] = f[n]
  <2> DEFINE Good == {n \in Nat : n <= N => loop[n] = f[n]}
  <2>1. 0 \in 0 .. N
    BY <1>3
  <2>2. 0 \in Good
    BY <1>6, <1>9, <2>1
  <2>3. \A n \in Nat : n \in Good => n + 1 \in Good
    <3> SUFFICES ASSUME NEW n \in Nat, n \in Good, n + 1 <= N PROVE loop[n + 1] = f[n + 1]
      OBVIOUS
    <3> DEFINE m == n + 1
    <3>1. m \in 0 .. N /\ m # 0 /\ m - 1 = n /\ n <= N
      BY <1>3
    <3>2. loop[n] = f[n]
      BY <3>1
    <3> HIDE DEF m
    <3>3. QED
      BY <1>6, <1>9, <3>1, <3>2, Zenon DEF Stops, L, m
  <2>4. \A n \in Nat : n \in Good
    <3> HIDE DEF Good
    <3>1. QED
      BY <2>2, <2>3, AllNumbers
  <2>5. QED
    BY <1>3, <2>4
<1>12. loop \in [0 .. N -> 0 .. L]
  BY <1>10, <1>11
<1>13. loop[0] = 0 /\ \A n \in 1 .. N : loop[n] = Min(Stops(native, dated, loop[n - 1], n))
  <2>1. 0 \in 0 .. N /\ \A n \in 1 .. N : n \in 0 .. N /\ n # 0
    BY <1>3
  <2>2. QED
    BY <1>9, <2>1, Zenon
<1>14. QED
  BY <1>12, <1>13, Zenon DEF Loop, loop, N, L

(* What is behind the cursor is due at a row of the journal so far, and the rest is not. *)
LEMMA CursorFacts ==
  ASSUME NEW native, NEW dated, Len(native) \in Nat, Len(dated) \in Nat, InOrder(dated),
         NEW cursor, Loop(cursor, native, dated)
  PROVE  \A n \in 0 .. Len(native) : \A k \in 1 .. Len(dated) :
            k <= cursor[n] <=> \E m \in 1 .. n : Due(dated[k], native[m])
<1> DEFINE N == Len(native)
           L == Len(dated)
           Right(n) == \A k \in 1 .. L : k <= cursor[n] <=> \E m \in 1 .. n : Due(dated[k], native[m])
           Good == {n \in Nat : n <= N => Right(n)}
<1>1. 0 \in Good
  <2>1. cursor[0] = 0
    BY Zenon DEF Loop
  <2>2. QED
    BY <2>1
<1>2. \A n \in Nat : n \in Good => n + 1 \in Good
  <2> SUFFICES ASSUME NEW n \in Nat, n \in Good, n + 1 <= N, NEW k \in 1 .. L
               PROVE  k <= cursor[n + 1] <=> \E m \in 1 .. n + 1 : Due(dated[k], native[m])
    OBVIOUS
  <2> DEFINE x == n + 1
             c == cursor[n]
             stop == cursor[x]
  <2>1. x \in 1 .. N /\ x - 1 = n /\ n \in 0 .. N /\ 1 .. x = 1 .. n \cup {x}
    OBVIOUS
  <2>2. c \in 0 .. L /\ stop = Min(Stops(native, dated, c, x))
    BY <2>1 DEF Loop
  <2> HIDE DEF x, c, stop
  <2>3. /\ stop \in c .. L
        /\ stop = L \/ ~ Due(dated[stop + 1], native[x])
        /\ \A l \in c + 1 .. stop : Due(dated[l], native[x])
    BY <2>2, StopFacts
  <2>4. k <= c <=> \E m \in 1 .. n : Due(dated[k], native[m])
    <3>1. Right(n)
      BY <2>1
    <3>2. QED
      BY <3>1, Zenon DEF c
  <2>5. k <= stop => k <= c \/ Due(dated[k], native[x])
    <3> SUFFICES ASSUME k <= stop, ~ (k <= c) PROVE Due(dated[k], native[x])
      OBVIOUS
    <3>1. k \in c + 1 .. stop
      BY <2>2, <2>3
    <3>2. QED
      BY <2>3, <3>1, Zenon
  <2>6. k <= c => k <= stop
    BY <2>2, <2>3
  <2>7. Due(dated[k], native[x]) => k <= stop
    <3> SUFFICES ASSUME Due(dated[k], native[x]), ~ (k <= stop) PROVE FALSE
      OBVIOUS
    <3> DEFINE l == stop + 1
    <3>1. l \in 1 .. L /\ stop # L /\ (l = k \/ l < k)
      BY <2>2, <2>3
    <3> HIDE DEF l
    <3>2. Due(dated[l], native[x])
      BY <3>1, DueEarlier
    <3>3. QED
      BY <2>3, <3>1, <3>2, Zenon DEF l
  <2>8. k <= stop <=> \E m \in 1 .. x : Due(dated[k], native[m])
    BY <2>1, <2>4, <2>5, <2>6, <2>7
  <2>9. QED
    BY <2>8 DEF x, stop
<1>3. \A n \in Nat : n \in Good
  <2> HIDE DEF Good
  <2>1. QED
    BY <1>1, <1>2, AllNumbers
<1>4. QED
  BY <1>3

(* The cursor never goes back.                                             *)
LEMMA CursorGrows ==
  ASSUME NEW native, NEW dated, Len(native) \in Nat, Len(dated) \in Nat, InOrder(dated),
         NEW cursor, Loop(cursor, native, dated), NEW m \in 0 .. Len(native), NEW n \in 0 .. Len(native), m <= n
  PROVE  cursor[m] \in 0 .. Len(dated) /\ cursor[n] \in 0 .. Len(dated) /\ cursor[m] <= cursor[n]
<1>1. cursor[m] \in 0 .. Len(dated) /\ cursor[n] \in 0 .. Len(dated)
  BY DEF Loop
<1> DEFINE k == cursor[m]
<1>2. CASE k = 0
  BY <1>1, <1>2
<1>3. CASE k # 0
  <2>1. k \in 1 .. Len(dated) /\ k <= k
    BY <1>1, <1>3
  <2>2. PICK l \in 1 .. m : Due(dated[k], native[l])
    BY <2>1, CursorFacts
  <2>3. l \in 1 .. n
    OBVIOUS
  <2>4. k <= cursor[n]
    BY <2>1, <2>2, <2>3, CursorFacts
  <2>5. QED
    BY <1>1, <2>4
<1>4. QED
  BY <1>2, <1>3

(* After n rows of the journal k is between the cursors of the row and the next. *)
Between(cursor, k, n) == k \in cursor[n] + 1 .. cursor[n + 1]

(* What the first n turns of the loop have put out.                        *)
Output(out, n, cursor, native, dated) ==
    /\ IsSequence(out) /\ Len(out) = n + cursor[n]
    /\ \A m \in 1 .. n : out[m + cursor[m]] = native[m]
    /\ \A m \in 0 .. n - 1 : \A k : Between(cursor, k, m) => out[m + k] = dated[k]
    /\ \A p \in 1 .. Len(out) : \/ \E m \in 1 .. n : p = m + cursor[m]
                                \/ \E m \in 0 .. n - 1 : \E k : Between(cursor, k, m) /\ p = m + k

LEMMA OutputFirst ==
  ASSUME NEW cursor, cursor[0] = 0, NEW native, NEW dated
  PROVE  Output(<<>>, 0, cursor, native, dated)
<1>1. 0 .. 0 - 1 = {} /\ 1 .. 0 = {} /\ 0 + 0 = 0
  OBVIOUS
<1>2. QED
  BY <1>1, Nothing, Zenon DEF Output

LEMMA OutputNext ==
  ASSUME NEW native, NEW dated, IsSequence(native), IsSequence(dated), InOrder(dated),
         NEW cursor, Loop(cursor, native, dated), NEW n \in 0 .. Len(native), n + 1 <= Len(native),
         NEW out, Output(out, n, cursor, native, dated)
  PROVE  Output(out \o SubSeq(dated, cursor[n] + 1, cursor[n + 1]) \o <<native[n + 1]>>, n + 1, cursor, native, dated)
<1> DEFINE x == n + 1
           c == cursor[n]
           d == cursor[x]
           slice == SubSeq(dated, c + 1, d)
           a == out \o slice
           b == a \o <<native[x]>>
<1>1. Len(native) \in Nat /\ Len(dated) \in Nat
  BY SequenceFacts
<1>2. x \in 0 .. Len(native) /\ n <= x /\ n \in Nat
  BY <1>1
<1>3. c \in 0 .. Len(dated) /\ d \in 0 .. Len(dated) /\ c <= d
  BY <1>1, <1>2, CursorGrows
<1> HIDE DEF x, c, d, slice
<1>4. d \in c .. Len(dated)
  BY <1>3
<1>5. IsSequence(slice) /\ Len(slice) = d - c /\ \A i \in 1 .. d - c : slice[i] = dated[c + i]
  BY <1>3, <1>4, Slice DEF slice
<1>6. IsSequence(out) /\ Len(out) = n + c
  BY Zenon DEF Output, c
<1>7. /\ IsSequence(a) /\ Len(a) = n + d
      /\ \A i \in 1 .. n + c : a[i] = out[i]
      /\ \A i \in 1 .. d - c : a[n + c + i] = dated[c + i]
  <2>1. /\ IsSequence(a) /\ Len(a) = Len(out) + Len(slice)
        /\ \A i \in 1 .. Len(out) : a[i] = out[i]
        /\ \A i \in 1 .. Len(slice) : a[Len(out) + i] = slice[i]
    BY <1>5, <1>6, Joint
  <2>2. n + c + (d - c) = n + d
    BY <1>2, <1>3
  <2>3. QED
    BY <1>5, <1>6, <2>1, <2>2, Zenon
<1> HIDE DEF a
<1>8. /\ IsSequence(b) /\ Len(b) = n + d + 1
      /\ \A i \in 1 .. n + d : b[i] = a[i]
      /\ b[n + d + 1] = native[x]
  <2> DEFINE one == <<native[x]>>
  <2>1. IsSequence(one) /\ Len(one) = 1 /\ one[1] = native[x] /\ 1 \in 1 .. 1
    BY Single
  <2> HIDE DEF one
  <2>2. /\ IsSequence(a \o one) /\ Len(a \o one) = Len(a) + Len(one)
        /\ \A i \in 1 .. Len(a) : (a \o one)[i] = a[i]
        /\ \A i \in 1 .. Len(one) : (a \o one)[Len(a) + i] = one[i]
    <3>1. IsSequence(a) /\ IsSequence(one)
      BY <1>7, <2>1
    <3>2. QED
      BY <3>1, Joint
  <2>3. (a \o one)[n + d + 1] = native[x]
    BY <1>7, <2>1, <2>2
  <2>4. b = a \o one
    BY DEF one
  <2>5. QED
    BY <1>7, <2>1, <2>2, <2>3, <2>4
<1> HIDE DEF b
<1>9. \A i \in 1 .. n + c : b[i] = out[i] /\ i \in 1 .. n + d
  <2>1. \A i \in 1 .. n + c : i \in 1 .. n + d
    BY <1>2, <1>3
  <2>2. QED
    BY <1>7, <1>8, <2>1
<1>10. \A k \in c + 1 .. d : b[n + k] = dated[k]
  <2> TAKE k \in c + 1 .. d
  <2> DEFINE i == k - c
  <2>1. i \in 1 .. d - c /\ n + c + i = n + k /\ c + i = k /\ n + k \in 1 .. n + d
    BY <1>2, <1>3
  <2> HIDE DEF i
  <2>2. a[n + c + i] = dated[c + i]
    BY <1>7, <2>1
  <2>3. QED
    BY <1>8, <2>1, <2>2
<1>11. Len(b) = x + d
  BY <1>2, <1>3, <1>8 DEF x
<1>12. \A m \in 1 .. x : b[m + cursor[m]] = native[m]
  <2> TAKE m \in 1 .. x
  <2>1. CASE m = x
    <3>1. m + cursor[m] = n + d + 1
      BY <1>2, <1>3, <2>1 DEF x, d
    <3>2. QED
      BY <1>8, <2>1, <3>1
  <2>2. CASE m # x
    <3>1. m \in 1 .. n /\ m \in 0 .. Len(native) /\ m <= n
      BY <1>1, <1>2, <2>2 DEF x
    <3>2. cursor[m] \in 0 .. Len(dated) /\ cursor[m] <= c
      BY <1>1, <3>1, CursorGrows DEF c
    <3>3. m + cursor[m] \in 1 .. n + c
      BY <1>2, <1>3, <3>1, <3>2
    <3>4. out[m + cursor[m]] = native[m]
      BY <3>1, Zenon DEF Output
    <3>5. QED
      BY <1>9, <3>3, <3>4
  <2>3. QED
    BY <2>1, <2>2
<1>13. \A m \in 0 .. x - 1 : m # n => m \in 0 .. n - 1 /\ m + 1 \in 0 .. Len(native) /\ m + 1 <= n
  BY <1>1, <1>2 DEF x
<1>14. \A m \in 0 .. x - 1 : \A k : Between(cursor, k, m) => b[m + k] = dated[k]
  <2> TAKE m \in 0 .. x - 1
  <2> SUFFICES ASSUME NEW k, Between(cursor, k, m) PROVE b[m + k] = dated[k]
    OBVIOUS
  <2>1. CASE m = n
    <3>1. k \in c + 1 .. d
      BY <2>1 DEF Between, c, d, x
    <3>2. QED
      BY <1>10, <2>1, <3>1
  <2>2. CASE m # n
    <3>1. m \in 0 .. n - 1 /\ m \in 0 .. Len(native) /\ m + 1 \in 0 .. Len(native) /\ m + 1 <= n /\ m <= m + 1
      BY <1>1, <1>2, <1>13, <2>2
    <3>2. cursor[m] \in 0 .. Len(dated) /\ cursor[m + 1] \in 0 .. Len(dated) /\ cursor[m + 1] <= c
      BY <1>1, <3>1, CursorGrows DEF c
    <3>3. k \in cursor[m] + 1 .. cursor[m + 1]
      BY DEF Between
    <3>4. m + k \in 1 .. n + c
      BY <1>2, <1>3, <3>1, <3>2, <3>3
    <3>5. out[m + k] = dated[k]
      BY <3>1, Zenon DEF Output
    <3>6. QED
      BY <1>9, <3>4, <3>5
  <2>3. QED
    BY <2>1, <2>2
<1>15. \A p \in 1 .. Len(b) : \/ \E m \in 1 .. x : p = m + cursor[m]
                              \/ \E m \in 0 .. x - 1 : \E k : Between(cursor, k, m) /\ p = m + k
  <2> TAKE p \in 1 .. Len(b)
  <2>1. CASE p \in 1 .. n + c
    <3>1. \/ \E m \in 1 .. n : p = m + cursor[m]
          \/ \E m \in 0 .. n - 1 : \E k : Between(cursor, k, m) /\ p = m + k
      <4>1. p \in 1 .. Len(out)
        BY <1>6, <2>1
      <4>2. QED
        BY <4>1, Zenon DEF Output
    <3>2. 1 .. n \subseteq 1 .. x /\ 0 .. n - 1 \subseteq 0 .. x - 1
      BY <1>2 DEF x
    <3>3. QED
      BY <3>1, <3>2, Zenon
  <2>2. CASE p \in 1 .. n + d /\ p \notin 1 .. n + c
    <3> DEFINE k == p - n
    <3>1. p = n + k /\ k \in c + 1 .. d
      BY <1>2, <1>3, <2>2
    <3> HIDE DEF k
    <3>2. Between(cursor, k, n) /\ n \in 0 .. x - 1
      BY <1>2, <3>1 DEF Between, c, d, x
    <3>3. QED
      BY <3>1, <3>2
  <2>3. CASE p \notin 1 .. n + d
    <3>1. p = x + d /\ x \in 1 .. x
      BY <1>2, <1>3, <1>11, <2>3 DEF x
    <3>2. QED
      BY <3>1 DEF d
  <2>4. QED
    BY <2>1, <2>2, <2>3
<1>16. Output(b, x, cursor, native, dated)
  BY <1>8, <1>11, <1>12, <1>14, <1>15, Zenon DEF Output, d
<1>17. QED
  BY <1>16 DEF a, b, slice, x, c, d

(* k of the additional rows stand behind m rows of the journal.            *)
Stands(cursor, native, k, m) == cursor[m] < k /\ (m = Len(native) \/ k <= cursor[m + 1])

(* The rows on screen, each at its place.                                  *)
Merged(items, native, dated, cursor) ==
    /\ IsSequence(items) /\ Len(items) = Len(native) + Len(dated)
    /\ \A m \in 1 .. Len(native) : items[m + cursor[m]] = native[m]
    /\ \A m \in 0 .. Len(native) : \A k \in 1 .. Len(dated) : Stands(cursor, native, k, m) => items[m + k] = dated[k]
    /\ \A p \in 1 .. Len(items) :
          \/ \E m \in 1 .. Len(native) : p = m + cursor[m]
          \/ \E m \in 0 .. Len(native) : \E k \in 1 .. Len(dated) : Stands(cursor, native, k, m) /\ p = m + k

LEMMA OutputMerged ==
  ASSUME NEW native, NEW dated, IsSequence(native), IsSequence(dated), InOrder(dated),
         NEW cursor, Loop(cursor, native, dated),
         NEW out, Output(out, Len(native), cursor, native, dated)
  PROVE  Merged(out \o SubSeq(dated, cursor[Len(native)] + 1, Len(dated)), native, dated, cursor)
<1> DEFINE N == Len(native)
           L == Len(dated)
           c == cursor[N]
           rest == SubSeq(dated, c + 1, L)
           items == out \o rest
<1>1. N \in Nat /\ L \in Nat
  BY SequenceFacts
<1> HIDE DEF N, L
<1>2. N \in 0 .. N /\ c \in 0 .. L /\ L \in c .. L
  <2>1. N \in 0 .. N
    BY <1>1
  <2>2. c \in 0 .. L
    BY <2>1 DEF Loop, N, L
  <2>3. QED
    BY <1>1, <2>1, <2>2
<1> HIDE DEF c, rest, items
<1>3. IsSequence(rest) /\ Len(rest) = L - c /\ \A i \in 1 .. L - c : rest[i] = dated[c + i]
  BY <1>2, Slice DEF rest, L
<1>4. IsSequence(out) /\ Len(out) = N + c
  BY Zenon DEF Output, N, c
<1>5. /\ IsSequence(items) /\ Len(items) = N + L
      /\ \A i \in 1 .. N + c : items[i] = out[i]
      /\ \A i \in 1 .. L - c : items[N + c + i] = dated[c + i]
  <2>1. /\ IsSequence(items) /\ Len(items) = Len(out) + Len(rest)
        /\ \A i \in 1 .. Len(out) : items[i] = out[i]
        /\ \A i \in 1 .. Len(rest) : items[Len(out) + i] = rest[i]
    BY <1>3, <1>4, Joint DEF items
  <2>2. N + c + (L - c) = N + L
    BY <1>1, <1>2
  <2>3. QED
    BY <1>3, <1>4, <2>1, <2>2, Zenon
<1>6. \A k \in c + 1 .. L : items[N + k] = dated[k]
  <2> TAKE k \in c + 1 .. L
  <2> DEFINE i == k - c
  <2>1. i \in 1 .. L - c /\ N + c + i = N + k /\ c + i = k
    BY <1>1, <1>2
  <2> HIDE DEF i
  <2>2. items[N + c + i] = dated[c + i]
    BY <1>5, <2>1
  <2>3. QED
    BY <2>1, <2>2
<1>7. \A m \in 0 .. N : cursor[m] \in 0 .. L /\ cursor[m] <= c
  <2> TAKE m \in 0 .. N
  <2>1. m <= N
    BY <1>1
  <2>2. QED
    BY <1>1, <1>2, <2>1, CursorGrows DEF N, L, c
<1>8. \A m \in 1 .. N : items[m + cursor[m]] = native[m]
  <2> TAKE m \in 1 .. N
  <2>1. m \in 0 .. N
    OBVIOUS
  <2>2. cursor[m] \in 0 .. L /\ cursor[m] <= c
    BY <1>7, <2>1
  <2>3. m + cursor[m] \in 1 .. N + c
    BY <1>1, <1>2, <2>2
  <2>4. out[m + cursor[m]] = native[m]
    BY Zenon DEF Output, N
  <2>5. QED
    BY <1>5, <2>3, <2>4
<1>9. \A m \in 0 .. N : \A k \in 1 .. L : Stands(cursor, native, k, m) => items[m + k] = dated[k]
  <2> SUFFICES ASSUME NEW m \in 0 .. N, NEW k \in 1 .. L, Stands(cursor, native, k, m) PROVE items[m + k] = dated[k]
    OBVIOUS
  <2>1. cursor[m] \in 0 .. L /\ cursor[m] < k /\ (m = N \/ k <= cursor[m + 1])
    BY <1>7 DEF Stands, N
  <2>2. CASE m = N
    <3>1. k \in c + 1 .. L
      BY <1>2, <2>1, <2>2 DEF c
    <3>2. QED
      BY <1>6, <2>2, <3>1
  <2>3. CASE m # N
    <3>1. m \in 0 .. N - 1 /\ m + 1 \in 0 .. N
      BY <1>1, <2>3
    <3>2. cursor[m + 1] \in 0 .. L /\ cursor[m + 1] <= c
      BY <1>7, <3>1
    <3>3. k \in cursor[m] + 1 .. cursor[m + 1]
      BY <2>1, <2>3, <3>2
    <3>4. out[m + k] = dated[k]
      BY <3>1, <3>3, Zenon DEF Output, Between, N
    <3>5. m + k \in 1 .. N + c
      BY <1>1, <1>2, <3>1, <3>2, <3>3
    <3>6. QED
      BY <1>5, <3>4, <3>5
  <2>4. QED
    BY <2>2, <2>3
<1>10. \A p \in 1 .. Len(items) :
          \/ \E m \in 1 .. N : p = m + cursor[m]
          \/ \E m \in 0 .. N : \E k \in 1 .. L : Stands(cursor, native, k, m) /\ p = m + k
  <2> TAKE p \in 1 .. Len(items)
  <2>1. CASE p \in 1 .. N + c
    <3>1. p \in 1 .. Len(out)
      BY <1>4, <2>1
    <3>2. \/ \E m \in 1 .. N : p = m + cursor[m]
          \/ \E m \in 0 .. N - 1 : \E k : Between(cursor, k, m) /\ p = m + k
      BY <3>1, Zenon DEF Output, N
    <3>3. ASSUME NEW m \in 0 .. N - 1, NEW k, Between(cursor, k, m), p = m + k
          PROVE  m \in 0 .. N /\ k \in 1 .. L /\ Stands(cursor, native, k, m)
      <4>1. m \in 0 .. N /\ m + 1 \in 0 .. N
        BY <1>1
      <4>2. cursor[m] \in 0 .. L /\ cursor[m + 1] \in 0 .. L
        BY <1>7, <4>1, Zenon
      <4>3. k \in cursor[m] + 1 .. cursor[m + 1]
        BY <3>3 DEF Between
      <4>4. k \in 1 .. L /\ cursor[m] < k /\ k <= cursor[m + 1]
        BY <1>1, <4>2, <4>3
      <4>5. QED
        BY <4>1, <4>4 DEF Stands
    <3>4. QED
      BY <3>2, <3>3, Zenon
  <2>2. CASE p \notin 1 .. N + c
    <3> DEFINE k == p - N
    <3>1. p = N + k /\ k \in c + 1 .. L /\ k \in 1 .. L /\ c < k
      BY <1>1, <1>2, <1>5, <2>2
    <3> HIDE DEF k
    <3>2. Stands(cursor, native, k, N)
      BY <3>1 DEF Stands, c, N
    <3>3. QED
      BY <1>2, <3>1, <3>2
  <2>3. QED
    BY <2>1, <2>2
<1>11. Merged(items, native, dated, cursor)
  BY <1>5, <1>8, <1>9, <1>10, Zenon DEF Merged, N, L
<1>12. QED
  BY <1>11 DEF items, rest, c, N, L

(* What the loop over the rows of the journal puts out.                    *)
Grown(native, dated, cursor, out, n) ==
    out \o SubSeq(dated, cursor[n - 1] + 1, cursor[n]) \o <<native[n]>>

IsResult(f, native, dated, cursor) ==
    f = [n \in 0 .. Len(native) |-> IF n = 0 THEN <<>> ELSE Grown(native, dated, cursor, f[n - 1], n)]

LEMMA ResultExists ==
  ASSUME NEW native, NEW dated, IsSequence(native), IsSequence(dated), InOrder(dated),
         NEW cursor, Loop(cursor, native, dated)
  PROVE  \E f : IsResult(f, native, dated, cursor)
<1>1. PICK S : native \in Seq(S)
  BY Zenon DEF IsSequence
<1>2. PICK T : dated \in Seq(T)
  BY Zenon DEF IsSequence
<1> DEFINE U == S \cup T
           N == Len(native)
           step == [n \in 1 .. N |-> [out \in Seq(U) |-> Grown(native, dated, cursor, out, n)]]
<1>3. native \in Seq(U) /\ dated \in Seq(U) /\ <<>> \in Seq(U)
  BY <1>1, <1>2, SeqMonotonic, EmptySeq
<1>4. N \in Nat /\ Len(dated) \in Nat
  BY SequenceFacts
<1> HIDE DEF U, N
<1>5. \A n \in 1 .. N : \A out \in Seq(U) : Grown(native, dated, cursor, out, n) \in Seq(U)
  <2> TAKE n \in 1 .. N
  <2> TAKE out \in Seq(U)
  <2> DEFINE m == n - 1
             slice == SubSeq(dated, cursor[m] + 1, cursor[n])
  <2>1. m \in 0 .. N /\ n \in 0 .. N /\ m <= n
    BY <1>4
  <2>2. cursor[m] \in 0 .. Len(dated) /\ cursor[n] \in 0 .. Len(dated) /\ cursor[m] <= cursor[n]
    <3> HIDE DEF m
    <3>1. QED
      BY <1>4, <2>1, CursorGrows DEF N
  <2>3. slice \in Seq(U)
    <3> DEFINE a == cursor[m] + 1
               b == cursor[n]
    <3>1. a \in Int /\ b \in Int /\ \A i \in a .. b : i \in 1 .. Len(dated)
      BY <1>4, <2>2
    <3> HIDE DEF a, b
    <3>2. \A i \in a .. b : dated[i] \in U
      BY <1>3, <3>1, ElementOfSeq
    <3>3. SubSeq(dated, a, b) \in Seq(U)
      BY <3>1, <3>2, SubSeqProperties
    <3>4. QED
      BY <3>3 DEF a, b
  <2> HIDE DEF slice
  <2>4. out \o slice \in Seq(U)
    BY <2>3, ConcatProperties
  <2>5. native[n] \in U
    BY <1>3, ElementOfSeq DEF N
  <2>6. <<native[n]>> \in Seq(U)
    BY <2>5
  <2>7. out \o slice \o <<native[n]>> \in Seq(U)
    BY <2>4, <2>6, ConcatProperties
  <2>8. QED
    BY <2>7 DEF Grown, slice
<1>6. \A n \in 1 .. N : step[n] \in [Seq(U) -> Seq(U)]
  BY <1>5
<1>7. \A n \in 1 .. N, out \in Seq(U) : step[n][out] = Grown(native, dated, cursor, out, n)
  BY Zenon
<1> HIDE DEF step
<1>8. PICK f \in [0 .. N -> Seq(U)] : IsLoop(f, <<>>, step, N)
  BY <1>3, <1>4, <1>6, LoopExists
<1>9. \A n \in 0 .. N : n # 0 => n - 1 \in 0 .. N /\ n \in 1 .. N
  BY <1>4
<1>10. \A n \in 0 .. N : f[n] = IF n = 0 THEN <<>> ELSE Grown(native, dated, cursor, f[n - 1], n)
  <2> TAKE n \in 0 .. N
  <2>1. f[n] = IF n = 0 THEN <<>> ELSE step[n][f[n - 1]]
    BY <1>8, Zenon DEF IsLoop
  <2>2. n # 0 => step[n][f[n - 1]] = Grown(native, dated, cursor, f[n - 1], n)
    BY <1>7, <1>9
  <2>3. QED
    BY <2>1, <2>2, Zenon
<1>11. f = [n \in 0 .. N |-> IF n = 0 THEN <<>> ELSE Grown(native, dated, cursor, f[n - 1], n)]
  BY <1>10, Zenon
<1>12. QED
  BY <1>11, Zenon DEF IsResult, N

LEMMA ResultFacts ==
  ASSUME NEW native, NEW dated, IsSequence(native), IsSequence(dated), InOrder(dated),
         NEW cursor, Loop(cursor, native, dated), NEW f, IsResult(f, native, dated, cursor)
  PROVE  Output(f[Len(native)], Len(native), cursor, native, dated)
<1> DEFINE N == Len(native)
           Good == {n \in Nat : n <= N => Output(f[n], n, cursor, native, dated)}
<1>1. N \in Nat
  BY SequenceFacts
<1> HIDE DEF N
<1>2. \A n \in 0 .. N : f[n] = IF n = 0 THEN <<>> ELSE Grown(native, dated, cursor, f[n - 1], n)
  BY Zenon DEF IsResult, N
<1>3. 0 \in Good
  <2>1. f[0] = <<>> /\ cursor[0] = 0
    <3>1. 0 \in 0 .. N
      BY <1>1
    <3>2. QED
      BY <1>2, <3>1, Zenon DEF Loop
  <2>2. Output(f[0], 0, cursor, native, dated)
    BY <2>1, OutputFirst
  <2>3. QED
    BY <2>2
<1>4. \A n \in Nat : n \in Good => n + 1 \in Good
  <2> SUFFICES ASSUME NEW n \in Nat, n \in Good, n + 1 <= N PROVE Output(f[n + 1], n + 1, cursor, native, dated)
    OBVIOUS
  <2>1. n \in 0 .. N /\ n <= N /\ n + 1 \in 0 .. N /\ n + 1 # 0 /\ (n + 1) - 1 = n
    BY <1>1
  <2>2. Output(f[n], n, cursor, native, dated)
    BY <2>1
  <2>3. f[n + 1] = Grown(native, dated, cursor, f[n], n + 1)
    BY <1>2, <2>1, Zenon
  <2>4. Grown(native, dated, cursor, f[n], n + 1) = f[n] \o SubSeq(dated, cursor[n] + 1, cursor[n + 1]) \o <<native[n + 1]>>
    BY <2>1, Zenon DEF Grown
  <2>5. Output(f[n] \o SubSeq(dated, cursor[n] + 1, cursor[n + 1]) \o <<native[n + 1]>>, n + 1, cursor, native, dated)
    BY <2>1, <2>2, OutputNext DEF N
  <2>6. QED
    BY <2>3, <2>4, <2>5
<1>5. N \in Good
  <2> HIDE DEF Good
  <2>1. QED
    BY <1>1, <1>3, <1>4, AllNumbers
<1>6. N <= N
  BY <1>1
<1>7. QED
  BY <1>5, <1>6, Zenon DEF N

(* The merge, for any rows of the journal and any others.                  *)
LEMMA MergeFacts ==
  ASSUME NEW native, NEW additional, IsSequence(native), IsSequence(additional)
  PROVE  \E order, dated, cursor :
            /\ SortedBy(order, dated, additional) /\ InOrder(dated) /\ Loop(cursor, native, dated)
            /\ Merged(mergeTimelineItems(native, additional), native, dated, cursor)
<1> DEFINE dated == Sorted(additional)
           cursor == CHOOSE f : f = [n \in 0 .. Len(native) |->
                         IF n = 0 THEN 0
                         ELSE Min({k \in f[n - 1] .. Len(dated) : k = Len(dated) \/ ~ Due(dated[k + 1], native[n])})]
           IsIt(f) == f = [n \in 0 .. Len(native) |->
                         IF n = 0 THEN <<>>
                         ELSE f[n - 1] \o SubSeq(dated, cursor[n - 1] + 1, cursor[n]) \o <<native[n]>>]
           result == CHOOSE f : IsIt(f)
<1>1. mergeTimelineItems(native, additional) = result[Len(native)] \o SubSeq(dated, cursor[Len(native)] + 1, Len(dated))
  BY Zenon DEF mergeTimelineItems
<1>2. PICK order : SortedBy(order, dated, additional)
  BY SortedFacts
<1> HIDE DEF dated
<1>3. IsSequence(dated) /\ InOrder(dated)
  BY <1>2, SortedInOrder DEF SortedBy
<1>4. Len(native) \in Nat /\ Len(dated) \in Nat
  BY <1>3, SequenceFacts
<1>5. Loop(cursor, native, dated)
  BY <1>4, LoopFacts
<1> HIDE DEF cursor
<1>6. \A f : IsResult(f, native, dated, cursor) <=> IsIt(f)
  BY Zenon DEF IsResult, Grown
<1>7. \E f : IsIt(f)
  BY <1>3, <1>5, <1>6, ResultExists
<1>8. IsIt(result)
  <2> HIDE DEF IsIt
  <2>1. QED
    BY <1>7, Zenon
<1>9. IsResult(result, native, dated, cursor)
  <2> HIDE DEF IsIt, result
  <2>1. QED
    BY <1>6, <1>8, Zenon
<1> HIDE DEF result
<1>10. Output(result[Len(native)], Len(native), cursor, native, dated)
  BY <1>3, <1>5, <1>9, ResultFacts
<1>11. Merged(mergeTimelineItems(native, additional), native, dated, cursor)
  BY <1>1, <1>3, <1>5, <1>10, OutputMerged
<1>12. QED
  BY <1>2, <1>3, <1>5, <1>11, Zenon

(* A row that is not of the journal has one place between its rows.        *)
LEMMA StandsSomewhere ==
  ASSUME NEW native, Len(native) \in Nat, NEW cursor, cursor[0] = 0, NEW k \in Nat, k # 0,
         \A n \in 0 .. Len(native) : cursor[n] \in Nat
  PROVE  \E m \in 0 .. Len(native) : Stands(cursor, native, k, m)
<1> DEFINE N == Len(native)
           behind == {m \in 1 .. N : k <= cursor[m]}
<1>1. CASE behind = {}
  <2>1. N \in 0 .. N /\ (N # 0 => N \in 1 .. N)
    OBVIOUS
  <2>2. cursor[N] < k
    <3>1. cursor[N] \in Nat
      BY <2>1
    <3>2. N # 0 => ~ (k <= cursor[N])
      BY <1>1, <2>1
    <3>3. QED
      BY <3>1, <3>2
  <2>3. QED
    BY <2>1, <2>2 DEF Stands
<1>2. CASE behind # {}
  <2>1. behind \subseteq Nat
    OBVIOUS
  <2>2. PICK n \in behind : \A m \in behind : n <= m
    <3> HIDE DEF behind
    <3>1. QED
      BY <1>2, <2>1, LeastNumber
  <2> DEFINE m == n - 1
  <2>3. n \in 1 .. N /\ k <= cursor[n] /\ m \in 0 .. N /\ m + 1 = n /\ ~ (n <= m) /\ (m # 0 => m \in 1 .. N)
    BY <2>2
  <2> HIDE DEF m
  <2>4. m # 0 => ~ (k <= cursor[m])
    BY <2>2, <2>3
  <2>5. cursor[m] \in Nat
    BY <2>3
  <2>6. cursor[m] < k
    BY <2>4, <2>5
  <2>7. Stands(cursor, native, k, m)
    BY <2>3, <2>6, Zenon DEF Stands
  <2>8. QED
    BY <2>3, <2>7
<1>3. QED
  BY <1>1, <1>2

Apart(native, dated) ==
    /\ \A m, n \in 1 .. Len(native) : native[m].id = native[n].id => m = n
    /\ \A k, l \in 1 .. Len(dated) : dated[k].id = dated[l].id => k = l
    /\ \A m \in 1 .. Len(native), k \in 1 .. Len(dated) : native[m].id # dated[k].id

(* Every row is there once, and a row of the journal is where the cursor says. *)
LEMMA MergedOnce ==
  ASSUME NEW native, NEW dated, IsSequence(native), IsSequence(dated), InOrder(dated), Apart(native, dated),
         NEW cursor, Loop(cursor, native, dated), NEW items, Merged(items, native, dated, cursor)
  PROVE  /\ \A i, j \in DOMAIN items : items[i].id = items[j].id => i = j
         /\ \A n \in 1 .. Len(native) : n + cursor[n] \in DOMAIN items /\ items[n + cursor[n]] = native[n]
         /\ \A k \in 1 .. Len(dated) : \E i \in DOMAIN items : items[i] = dated[k]
         /\ \A i \in DOMAIN items : items[i].id \notin {native[n].id : n \in 1 .. Len(native)} =>
               \E m \in 0 .. Len(native) : \E k \in 1 .. Len(dated) :
                  Stands(cursor, native, k, m) /\ i = m + k /\ items[i] = dated[k]
<1> DEFINE N == Len(native)
           L == Len(dated)
           Own(p, m) == m \in 1 .. N /\ p = m + cursor[m]
           Other(p, k, m) == m \in 0 .. N /\ k \in 1 .. L /\ Stands(cursor, native, k, m) /\ p = m + k
<1>1. N \in Nat /\ L \in Nat
  BY SequenceFacts
<1>2. \A m, n \in 0 .. N : cursor[m] \in 0 .. L /\ (m <= n => cursor[m] <= cursor[n])
  <2> TAKE m, n \in 0 .. N
  <2>1. cursor[m] \in 0 .. L
    BY DEF Loop
  <2>2. m <= n => cursor[m] <= cursor[n]
    BY <1>1, CursorGrows
  <2>3. QED
    BY <2>1, <2>2
<1>3. cursor[0] = 0
  BY Zenon DEF Loop
<1>4. IsSequence(items) /\ Len(items) = N + L /\ DOMAIN items = 1 .. N + L
  <2>1. IsSequence(items) /\ Len(items) = N + L
    BY Zenon DEF Merged
  <2>2. QED
    BY <2>1, SequenceFacts
<1>5. \A p, m : Own(p, m) => p \in DOMAIN items /\ items[p] = native[m]
  <2> SUFFICES ASSUME NEW p, NEW m, Own(p, m) PROVE p \in DOMAIN items /\ items[p] = native[m]
    BY Zenon
  <2>1. m \in 1 .. N /\ m \in 0 .. N /\ p = m + cursor[m]
    BY <1>1
  <2>2. cursor[m] \in 0 .. L
    BY <1>2, <2>1
  <2>3. p \in 1 .. N + L
    BY <1>1, <2>1, <2>2
  <2>4. items[p] = native[m]
    BY <2>1, Zenon DEF Merged
  <2>5. QED
    BY <1>4, <2>3, <2>4
<1>6. \A p, k, m : Other(p, k, m) => p \in DOMAIN items /\ items[p] = dated[k]
  <2> SUFFICES ASSUME NEW p, NEW k, NEW m, Other(p, k, m) PROVE p \in DOMAIN items /\ items[p] = dated[k]
    BY Zenon
  <2>1. m \in 0 .. N /\ k \in 1 .. L /\ p = m + k
    OBVIOUS
  <2>2. p \in 1 .. N + L
    BY <1>1, <2>1
  <2>3. items[p] = dated[k]
    BY Zenon DEF Merged
  <2>4. QED
    BY <1>4, <2>2, <2>3
<1>7. ASSUME NEW k \in 1 .. L, NEW m \in 0 .. N, NEW n \in 0 .. N,
             Stands(cursor, native, k, m), Stands(cursor, native, k, n)
      PROVE  m = n
  <2>1. ASSUME NEW a \in 0 .. N, NEW b \in 0 .. N, Stands(cursor, native, k, a), Stands(cursor, native, k, b)
        PROVE  ~ (a < b)
    <3>1. SUFFICES ASSUME a < b PROVE FALSE
      OBVIOUS
    <3>2. cursor[b] < k /\ (a = N \/ k <= cursor[a + 1])
      BY <2>1, Zenon DEF Stands
    <3>3. a # N /\ a + 1 \in 0 .. N /\ a + 1 <= b
      BY <1>1, <3>1
    <3>4. cursor[a + 1] \in 0 .. L /\ cursor[b] \in 0 .. L /\ cursor[a + 1] <= cursor[b]
      BY <1>2, <3>3
    <3> DEFINE x == cursor[a + 1]
               y == cursor[b]
    <3>5. x \in Nat /\ y \in Nat /\ k \in Nat /\ x <= y /\ y < k /\ k <= x
      BY <1>1, <3>2, <3>3, <3>4
    <3> HIDE DEF x, y
    <3>6. QED
      BY <3>5
  <2>2. ~ (m < n) /\ ~ (n < m)
    BY <1>7, <2>1
  <2>3. QED
    BY <1>1, <2>2
<1>8. \A p \in DOMAIN items : (\E m : Own(p, m)) \/ \E k, m : Other(p, k, m)
  <2> TAKE p \in DOMAIN items
  <2>1. p \in 1 .. Len(items)
    BY <1>4
  <2>2. QED
    BY <2>1, Zenon DEF Merged
<1>9. /\ \A m, n \in 1 .. N : native[m].id = native[n].id => m = n
      /\ \A k, l \in 1 .. L : dated[k].id = dated[l].id => k = l
      /\ \A m \in 1 .. N, k \in 1 .. L : native[m].id # dated[k].id
  BY Zenon DEF Apart
<1>10. \A p, m : Own(p, m) => m \in 1 .. N /\ p = m + cursor[m]
  BY Zenon
<1>11. \A p, k, m : Other(p, k, m) => m \in 0 .. N /\ k \in 1 .. L /\ Stands(cursor, native, k, m) /\ p = m + k
  BY Zenon
<1>12. ASSUME NEW i, NEW j, items[i].id = items[j].id, NEW m, Own(i, m), NEW k, NEW n, Other(j, k, n) PROVE FALSE
  <2> HIDE DEF Own, Other
  <2>1. items[i] = native[m] /\ m \in 1 .. N
    BY <1>5, <1>10, <1>12, Zenon
  <2>2. items[j] = dated[k] /\ k \in 1 .. L
    BY <1>6, <1>11, <1>12, Zenon
  <2>3. native[m].id = dated[k].id
    BY <1>12, <2>1, <2>2, Zenon
  <2>4. QED
    BY <1>9, <2>1, <2>2, <2>3, Zenon
<1>13. \A i, j \in DOMAIN items : items[i].id = items[j].id => i = j
  <2> SUFFICES ASSUME NEW i \in DOMAIN items, NEW j \in DOMAIN items, items[i].id = items[j].id PROVE i = j
    OBVIOUS
  <2> HIDE DEF Own, Other
  <2>1. ASSUME NEW m, Own(i, m), NEW n, Own(j, n) PROVE i = j
    <3>1. items[i] = native[m] /\ m \in 1 .. N /\ i = m + cursor[m]
      BY <1>5, <1>10, <2>1, Zenon
    <3>2. items[j] = native[n] /\ n \in 1 .. N /\ j = n + cursor[n]
      BY <1>5, <1>10, <2>1, Zenon
    <3>3. native[m].id = native[n].id
      BY <3>1, <3>2, Zenon
    <3>4. m = n
      BY <1>9, <3>1, <3>2, <3>3, Zenon
    <3>5. QED
      BY <3>1, <3>2, <3>4, Zenon
  <2>2. ASSUME NEW k, NEW m, Other(i, k, m), NEW l, NEW n, Other(j, l, n) PROVE i = j
    <3>1. items[i] = dated[k] /\ k \in 1 .. L /\ m \in 0 .. N /\ Stands(cursor, native, k, m) /\ i = m + k
      BY <1>6, <1>11, <2>2, Zenon
    <3>2. items[j] = dated[l] /\ l \in 1 .. L /\ n \in 0 .. N /\ Stands(cursor, native, l, n) /\ j = n + l
      BY <1>6, <1>11, <2>2, Zenon
    <3>3. dated[k].id = dated[l].id
      BY <3>1, <3>2, Zenon
    <3>4. k = l
      BY <1>9, <3>1, <3>2, <3>3, Zenon
    <3>5. m = n
      BY <1>7, <3>1, <3>2, <3>4
    <3>6. QED
      BY <3>1, <3>2, <3>4, <3>5, Zenon
  <2>3. items[j].id = items[i].id
    OBVIOUS
  <2>4. QED
    BY <1>8, <1>12, <2>1, <2>2, <2>3, Zenon
<1>14. \A n \in 1 .. N : n + cursor[n] \in DOMAIN items /\ items[n + cursor[n]] = native[n]
  <2> TAKE n \in 1 .. N
  <2>1. Own(n + cursor[n], n)
    OBVIOUS
  <2> HIDE DEF Own
  <2>2. QED
    BY <1>5, <2>1
<1>15. \A k \in 1 .. L : \E i \in DOMAIN items : items[i] = dated[k]
  <2> TAKE k \in 1 .. L
  <2>1. \A n \in 0 .. N : cursor[n] \in Nat
    BY <1>1, <1>2
  <2>2. k \in Nat /\ k # 0
    BY <1>1
  <2>3. PICK m \in 0 .. N : Stands(cursor, native, k, m)
    BY <1>1, <1>3, <2>1, <2>2, StandsSomewhere
  <2>4. Other(m + k, k, m)
    BY <2>3
  <2> HIDE DEF Other
  <2>5. QED
    BY <1>6, <2>4
<1>16. \A i \in DOMAIN items : items[i].id \notin {native[n].id : n \in 1 .. N} =>
         \E m \in 0 .. N : \E k \in 1 .. L : Stands(cursor, native, k, m) /\ i = m + k /\ items[i] = dated[k]
  <2> SUFFICES ASSUME NEW i \in DOMAIN items, items[i].id \notin {native[n].id : n \in 1 .. N}
               PROVE  \E m \in 0 .. N : \E k \in 1 .. L : Stands(cursor, native, k, m) /\ i = m + k /\ items[i] = dated[k]
    OBVIOUS
  <2>1. ~ \E m : Own(i, m)
    <3> SUFFICES ASSUME NEW m, Own(i, m) PROVE FALSE
      OBVIOUS
    <3>1. m \in 1 .. N /\ items[i] = native[m]
      <4> HIDE DEF Own
      <4>1. QED
        BY <1>5, <1>10
    <3>2. QED
      BY <3>1
  <2>2. PICK k, m : Other(i, k, m)
    BY <1>8, <2>1, Zenon
  <2>3. items[i] = dated[k]
    <3> HIDE DEF Other
    <3>1. QED
      BY <1>6, <2>2
  <2>4. QED
    BY <2>2, <2>3
<1>17. QED
  BY <1>13, <1>14, <1>15, <1>16, Zenon

(* The journal keeps its order, and a row is in front of a row of the journal
   exactly if it is due there or before.                                   *)
InPlace(native, items) ==
    LET place == [n \in DOMAIN native |-> CHOOSE k \in DOMAIN items : items[k] = native[n]]
        ids == {native[n].id : n \in DOMAIN native}
    IN  /\ \A n \in DOMAIN native : \E k \in DOMAIN items : items[k] = native[n]
        /\ \A m, n \in DOMAIN native : m < n => place[m] < place[n]
        /\ \A k \in DOMAIN items : items[k].id \notin ids =>
              \A n \in DOMAIN native : k < place[n] <=> \E m \in 1 .. n : Due(items[k], native[m])

LEMMA MergedInPlace ==
  ASSUME NEW native, NEW dated, IsSequence(native), IsSequence(dated), InOrder(dated), Apart(native, dated),
         NEW cursor, Loop(cursor, native, dated), NEW items, Merged(items, native, dated, cursor)
  PROVE  InPlace(native, items)
<1> DEFINE N == Len(native)
           L == Len(dated)
           place == [n \in DOMAIN native |-> CHOOSE k \in DOMAIN items : items[k] = native[n]]
<1>1. N \in Nat /\ L \in Nat /\ DOMAIN native = 1 .. N
  BY SequenceFacts
<1>2. /\ \A i, j \in DOMAIN items : items[i].id = items[j].id => i = j
      /\ \A n \in 1 .. N : n + cursor[n] \in DOMAIN items /\ items[n + cursor[n]] = native[n]
      /\ \A i \in DOMAIN items : items[i].id \notin {native[n].id : n \in 1 .. N} =>
               \E m \in 0 .. N : \E k \in 1 .. L :
                  Stands(cursor, native, k, m) /\ i = m + k /\ items[i] = dated[k]
  BY MergedOnce
<1>3. \A n \in 1 .. N : place[n] = n + cursor[n]
  <2> TAKE n \in 1 .. N
  <2>1. place[n] = CHOOSE k \in DOMAIN items : items[k] = native[n]
    BY <1>1, Zenon
  <2>2. n + cursor[n] \in DOMAIN items /\ items[n + cursor[n]] = native[n]
    BY <1>2, Zenon
  <2>3. place[n] \in DOMAIN items /\ items[place[n]] = native[n]
    BY <2>1, <2>2, Zenon
  <2> HIDE DEF place
  <2>4. items[place[n]].id = items[n + cursor[n]].id
    BY <2>2, <2>3, Zenon
  <2>5. QED
    BY <1>2, <2>2, <2>3, <2>4
<1> HIDE DEF place
<1>4. \A m, n \in 0 .. N : cursor[m] \in 0 .. L /\ (m <= n => cursor[m] <= cursor[n])
  <2> TAKE m, n \in 0 .. N
  <2>1. cursor[m] \in 0 .. L
    BY DEF Loop
  <2>2. m <= n => cursor[m] <= cursor[n]
    BY <1>1, CursorGrows
  <2>3. QED
    BY <2>1, <2>2
<1>5. \A m, n \in 1 .. N : m < n => place[m] < place[n]
  <2> SUFFICES ASSUME NEW m \in 1 .. N, NEW n \in 1 .. N, m < n PROVE m + cursor[m] < n + cursor[n]
    BY <1>3
  <2>1. m \in 0 .. N /\ n \in 0 .. N /\ m <= n
    BY <1>1
  <2>2. cursor[m] \in 0 .. L /\ cursor[n] \in 0 .. L /\ cursor[m] <= cursor[n]
    BY <1>4, <2>1
  <2>3. QED
    BY <1>1, <2>2
<1>6. \A n \in 1 .. N : \E k \in DOMAIN items : items[k] = native[n]
  BY <1>2, Zenon
<1>7. ASSUME NEW i \in DOMAIN items, items[i].id \notin {native[n].id : n \in 1 .. N}, NEW n \in 1 .. N
      PROVE  i < place[n] <=> \E m \in 1 .. n : Due(items[i], native[m])
  <2>1. PICK m \in 0 .. N, k \in 1 .. L : Stands(cursor, native, k, m) /\ i = m + k /\ items[i] = dated[k]
    BY <1>2, <1>7, Zenon
  <2>2. k <= cursor[n] <=> \E l \in 1 .. n : Due(items[i], native[l])
    <3>1. n \in 0 .. N
      BY <1>1
    <3>2. k <= cursor[n] <=> \E l \in 1 .. n : Due(dated[k], native[l])
      BY <1>1, <3>1, CursorFacts
    <3>3. QED
      BY <2>1, <3>2, Zenon
  <2>3. i < place[n] <=> k <= cursor[n]
    <3> DEFINE x == cursor[n]
               y == cursor[m]
               z == cursor[m + 1]
    <3>1. place[n] = n + x
      BY <1>3
    <3>2. n \in Nat /\ m \in Nat /\ k \in Nat /\ m <= N /\ n <= N /\ n \in 0 .. N
      BY <1>1
    <3>3. y < k /\ (m = N \/ k <= z)
      BY <2>1, Zenon DEF Stands
    <3>4. x \in Nat /\ y \in Nat
      BY <1>1, <1>4, <3>2
    <3>5. n <= m => x <= y
      BY <1>4, <3>2
    <3>6. ~ (n <= m) => m # N /\ z \in Nat /\ z <= x
      <4>1. SUFFICES ASSUME ~ (n <= m) PROVE m # N /\ z \in Nat /\ z <= x
        OBVIOUS
      <4>2. m # N /\ m + 1 \in 0 .. N /\ m + 1 <= n
        <5> HIDE DEF N, x, y, z
        <5>1. QED
          BY <1>1, <3>2, <4>1
      <4>3. z \in 0 .. L /\ z <= x
        <5> HIDE DEF N, L
        <5>1. QED
          BY <1>4, <3>2, <4>2
      <4>4. z \in Nat
        BY <1>1, <4>3
      <4>5. QED
        BY <4>2, <4>3, <4>4
    <3> HIDE DEF x, y, z
    <3>7. CASE n <= m
      <4>1. ~ (k <= x) /\ ~ (m + k < n + x)
        BY <3>2, <3>3, <3>4, <3>5, <3>7
      <4>2. QED
        BY <2>1, <3>1, <4>1 DEF x
    <3>8. CASE ~ (n <= m)
      <4>1. k <= x /\ m + k < n + x
        BY <3>2, <3>3, <3>4, <3>6, <3>8
      <4>2. QED
        BY <2>1, <3>1, <4>1 DEF x
    <3>9. QED
      BY <3>7, <3>8
  <2>4. QED
    BY <2>2, <2>3
<1>8. QED
  BY <1>1, <1>5, <1>6, <1>7, Zenon DEF InPlace, place

(* A sequence and one element more.                                        *)
LEMMA Appended ==
  ASSUME NEW q, IsSequence(q), NEW x
  PROVE  /\ IsSequence(Append(q, x)) /\ Len(Append(q, x)) = Len(q) + 1 /\ Len(q) \in Nat
         /\ \A i \in 1 .. Len(q) : Append(q, x)[i] = q[i]
         /\ Append(q, x)[Len(q) + 1] = x
<1>1. PICK S : q \in Seq(S)
  BY Zenon DEF IsSequence
<1> DEFINE T == S \cup {x}
<1>2. q \in Seq(T)
  BY <1>1, SeqMonotonic
<1>3. x \in T
  OBVIOUS
<1> HIDE DEF T
<1>4. Append(q, x) \in Seq(T) /\ Len(q) \in Nat
  BY <1>2, <1>3
<1>5. /\ Len(Append(q, x)) = Len(q) + 1
      /\ \A i \in 1 .. Len(q) : Append(q, x)[i] = q[i]
      /\ Append(q, x)[Len(q) + 1] = x
  BY <1>2, <1>3, AppendProperties
<1>6. QED
  BY <1>4, <1>5, Zenon DEF IsSequence

---------------------------------------------------------------------------
(* The outbox *)

(* The messages of the outbox that are still rows, and the first of those
   with the same key.                                                      *)
Open(sessionId, s, sent) ==
    {k \in DOMAIN sent : /\ sent[k].session \in {None, sessionId}
                         /\ sent[k].turn \notin {s.items[i].turn : i \in {i \in DOMAIN s.items : s.items[i].role = "user"}}}
First(open, sent) == {k \in open : \A l \in open : l < k => RowId(sent[l]) # RowId(sent[k])}

(* What the first n messages have put out.                                 *)
Listed(out, n, first, sent) ==
    /\ IsSequence(out)
    /\ \A p \in 1 .. Len(out) : \E k \in first : k <= n /\ out[p] = OptimisticRow(sent[k])
    /\ \A k \in first : k <= n => \E p \in 1 .. Len(out) : out[p] = OptimisticRow(sent[k])
    /\ \A p, q \in 1 .. Len(out) : out[p].id = out[q].id => p = q

LEMMA ListedFirst ==
  ASSUME NEW first, NEW sent, first \subseteq Nat \ {0}
  PROVE  Listed(<<>>, 0, first, sent)
<1>1. IsSequence(<<>>) /\ Len(<<>>) = 0
  BY Nothing
<1>2. 1 .. 0 = {} /\ \A k \in first : ~ (k <= 0)
  OBVIOUS
<1>3. QED
  BY <1>1, <1>2, Zenon DEF Listed

LEMMA ListedNext ==
  ASSUME NEW first, NEW sent, first \subseteq Nat, NEW n \in Nat, NEW out, Listed(out, n, first, sent),
         \A k, l \in first : RowId(sent[k]) = RowId(sent[l]) => k = l
  PROVE  /\ n + 1 \in first => Listed(Append(out, OptimisticRow(sent[n + 1])), n + 1, first, sent)
         /\ n + 1 \notin first => Listed(out, n + 1, first, sent)
<1>1. /\ IsSequence(out)
      /\ \A p \in 1 .. Len(out) : \E k \in first : k <= n /\ out[p] = OptimisticRow(sent[k])
      /\ \A k \in first : k <= n => \E p \in 1 .. Len(out) : out[p] = OptimisticRow(sent[k])
      /\ \A p, q \in 1 .. Len(out) : out[p].id = out[q].id => p = q
  BY Zenon DEF Listed
<1>2. \A k \in first : (k <= n => k <= n + 1) /\ (k <= n + 1 => k <= n \/ k = n + 1)
  OBVIOUS
<1>3. ASSUME n + 1 \notin first PROVE Listed(out, n + 1, first, sent)
  BY <1>1, <1>2, <1>3, Zenon DEF Listed
<1>4. ASSUME n + 1 \in first PROVE Listed(Append(out, OptimisticRow(sent[n + 1])), n + 1, first, sent)
  <2> DEFINE x == OptimisticRow(sent[n + 1])
             more == Append(out, x)
             size == Len(out)
  <2>1. /\ IsSequence(more) /\ Len(more) = size + 1 /\ size \in Nat
        /\ \A i \in 1 .. size : more[i] = out[i]
        /\ more[size + 1] = x
    BY <1>1, Appended
  <2>2. \A p \in 1 .. size + 1 : p \in 1 .. size \/ p = size + 1
    BY <2>1
  <2>3. \A p \in 1 .. size : p \in 1 .. size + 1
    BY <2>1
  <2>4. size + 1 \in 1 .. size + 1 /\ n + 1 <= n + 1 /\ ~ (n + 1 <= n)
    BY <2>1
  <2>5. \A m : OptimisticRow(m).id = RowId(m)
    BY DEF OptimisticRow
  <2> HIDE DEF x, more, size
  <2>6. \A p \in 1 .. size : out[p].id # x.id
    <3> SUFFICES ASSUME NEW p \in 1 .. size, out[p].id = x.id PROVE FALSE
      OBVIOUS
    <3>1. PICK k \in first : k <= n /\ out[p] = OptimisticRow(sent[k])
      BY <1>1 DEF size
    <3>2. RowId(sent[k]) = RowId(sent[n + 1])
      BY <2>5, <3>1, Zenon DEF x
    <3>3. k = n + 1
      BY <1>4, <3>2, Zenon
    <3>4. QED
      BY <2>4, <3>1, <3>3, Zenon
  <2>7. \A p \in 1 .. size + 1 : \E k \in first : k <= n + 1 /\ more[p] = OptimisticRow(sent[k])
    <3> TAKE p \in 1 .. size + 1
    <3>1. CASE p \in 1 .. size
      <4>1. PICK k \in first : k <= n /\ out[p] = OptimisticRow(sent[k])
        BY <1>1, <3>1 DEF size
      <4>2. more[p] = out[p] /\ k <= n + 1
        BY <1>2, <2>1, <3>1, <4>1, Zenon
      <4>3. QED
        BY <4>1, <4>2, Zenon
    <3>2. CASE p = size + 1
      BY <1>4, <2>1, <2>4, <3>2, Zenon DEF x
    <3>3. QED
      BY <2>2, <3>1, <3>2, Zenon
  <2>8. \A k \in first : k <= n + 1 => \E p \in 1 .. size + 1 : more[p] = OptimisticRow(sent[k])
    <3> SUFFICES ASSUME NEW k \in first, k <= n + 1 PROVE \E p \in 1 .. size + 1 : more[p] = OptimisticRow(sent[k])
      OBVIOUS
    <3>1. CASE k <= n
      <4>1. PICK p \in 1 .. size : out[p] = OptimisticRow(sent[k])
        BY <1>1, <3>1 DEF size
      <4>2. QED
        BY <2>1, <2>3, <4>1, Zenon
    <3>2. CASE k = n + 1
      BY <2>1, <2>4, <3>2, Zenon DEF x
    <3>3. QED
      BY <1>2, <3>1, <3>2, Zenon
  <2>9. \A p, q \in 1 .. size + 1 : more[p].id = more[q].id => p = q
    BY <1>1, <2>1, <2>2, <2>6, Zenon DEF size
  <2>10. Listed(more, n + 1, first, sent)
    BY <2>1, <2>7, <2>8, <2>9, Zenon DEF Listed
  <2>11. QED
    BY <2>10 DEF more, x
<1>5. QED
  BY <1>3, <1>4

IsRows(f, first, sent) ==
    f = [k \in 0 .. Len(sent) |->
            IF k = 0 THEN <<>> ELSE IF k \in first THEN Append(f[k - 1], OptimisticRow(sent[k])) ELSE f[k - 1]]

LEMMA RowsExist ==
  ASSUME NEW first, NEW sent, Len(sent) \in Nat
  PROVE  \E f : IsRows(f, first, sent)
<1> DEFINE N == Len(sent)
           U == {OptimisticRow(sent[k]) : k \in 1 .. N}
           Next1(k, out) == IF k \in first THEN Append(out, OptimisticRow(sent[k])) ELSE out
           step == [k \in 1 .. N |-> [out \in Seq(U) |-> Next1(k, out)]]
<1>1. N \in Nat
  OBVIOUS
<1>2. \A k \in 1 .. N : OptimisticRow(sent[k]) \in U
  OBVIOUS
<1> HIDE DEF U, N
<1>3. \A k \in 1 .. N : \A out \in Seq(U) : Next1(k, out) \in Seq(U)
  <2> SUFFICES ASSUME NEW k \in 1 .. N, NEW out \in Seq(U) PROVE Next1(k, out) \in Seq(U)
    OBVIOUS
  <2> DEFINE x == OptimisticRow(sent[k])
  <2>1. x \in U
    BY <1>2
  <2> HIDE DEF x
  <2>2. Append(out, x) \in Seq(U)
    BY <2>1
  <2>3. QED
    BY <2>2 DEF x
<1>4. \A k \in 1 .. N : step[k] \in [Seq(U) -> Seq(U)]
  <2> HIDE DEF Next1
  <2>1. QED
    BY <1>3
<1>5. \A k \in 1 .. N, out \in Seq(U) : step[k][out] = Next1(k, out)
  BY Zenon
<1> HIDE DEF step
<1>6. <<>> \in Seq(U)
  BY EmptySeq
<1>7. PICK f \in [0 .. N -> Seq(U)] : IsLoop(f, <<>>, step, N)
  BY <1>1, <1>4, <1>6, LoopExists
<1>8. \A n \in 0 .. N : n # 0 => n - 1 \in 0 .. N /\ n \in 1 .. N
  BY <1>1
<1> HIDE DEF Next1
<1>9. \A n \in 0 .. N : f[n] = IF n = 0 THEN <<>> ELSE Next1(n, f[n - 1])
  <2> TAKE n \in 0 .. N
  <2>1. f[n] = IF n = 0 THEN <<>> ELSE step[n][f[n - 1]]
    BY <1>7, Zenon DEF IsLoop
  <2>2. n # 0 => step[n][f[n - 1]] = Next1(n, f[n - 1])
    BY <1>5, <1>8
  <2>3. QED
    BY <2>1, <2>2, Zenon
<1>10. f = [n \in 0 .. N |-> IF n = 0 THEN <<>> ELSE Next1(n, f[n - 1])]
  BY <1>9, Zenon
<1>11. QED
  BY <1>10, Zenon DEF IsRows, N, Next1

LEMMA RowsFacts ==
  ASSUME NEW first, NEW sent, Len(sent) \in Nat, first \subseteq Nat \ {0},
         \A k, l \in first : RowId(sent[k]) = RowId(sent[l]) => k = l,
         NEW f, IsRows(f, first, sent)
  PROVE  Listed(f[Len(sent)], Len(sent), first, sent)
<1> DEFINE N == Len(sent)
           Good == {n \in Nat : n <= N => Listed(f[n], n, first, sent)}
<1>1. N \in Nat
  OBVIOUS
<1> HIDE DEF N
<1>2. \A n \in 0 .. N : f[n] = IF n = 0 THEN <<>> ELSE IF n \in first THEN Append(f[n - 1], OptimisticRow(sent[n])) ELSE f[n - 1]
  BY Zenon DEF IsRows, N
<1>3. 0 \in Good
  <2>1. 0 \in 0 .. N
    BY <1>1
  <2>2. f[0] = <<>>
    BY <1>2, <2>1, Zenon
  <2>3. Listed(f[0], 0, first, sent)
    BY <2>2, ListedFirst
  <2>4. QED
    BY <2>3
<1>4. \A n \in Nat : n \in Good => n + 1 \in Good
  <2> SUFFICES ASSUME NEW n \in Nat, n \in Good, n + 1 <= N PROVE Listed(f[n + 1], n + 1, first, sent)
    OBVIOUS
  <2>1. n \in 0 .. N /\ n <= N /\ n + 1 \in 0 .. N /\ n + 1 # 0 /\ (n + 1) - 1 = n
    BY <1>1
  <2>2. Listed(f[n], n, first, sent)
    BY <2>1
  <2>3. f[n + 1] = IF n + 1 \in first THEN Append(f[n], OptimisticRow(sent[n + 1])) ELSE f[n]
    BY <1>2, <2>1, Zenon
  <2>4. /\ n + 1 \in first => Listed(Append(f[n], OptimisticRow(sent[n + 1])), n + 1, first, sent)
        /\ n + 1 \notin first => Listed(f[n], n + 1, first, sent)
    BY <2>2, ListedNext
  <2>5. QED
    BY <2>3, <2>4, Zenon
<1>5. N \in Good
  <2> HIDE DEF Good
  <2>1. QED
    BY <1>1, <1>3, <1>4, AllNumbers
<1>6. N <= N
  BY <1>1
<1>7. QED
  BY <1>5, <1>6, Zenon DEF N

(* The rows of the outbox: each open message has one, each key is there once. *)
LEMMA OptimisticFacts ==
  ASSUME NEW sessionId, NEW s, NEW sent, Len(sent) \in Nat, DOMAIN sent = 1 .. Len(sent)
  PROVE  LET rows == optimisticTimelineItems(sessionId, s, sent)
             open == Open(sessionId, s, sent)
         IN  /\ IsSequence(rows)
             /\ \A p \in 1 .. Len(rows) : \E k \in open : rows[p] = OptimisticRow(sent[k])
             /\ \A k \in open : \E p \in 1 .. Len(rows) : rows[p].id = RowId(sent[k])
             /\ \A p, q \in 1 .. Len(rows) : rows[p].id = rows[q].id => p = q
<1> DEFINE open == Open(sessionId, s, sent)
           first == First(open, sent)
           N == Len(sent)
           IsIt(f) == f = [k \in 0 .. Len(sent) |->
                              IF k = 0 THEN <<>> ELSE IF k \in first THEN Append(f[k - 1], OptimisticRow(sent[k])) ELSE f[k - 1]]
           result == CHOOSE f : IsIt(f)
           rows == optimisticTimelineItems(sessionId, s, sent)
<1>1. rows = result[N]
  BY Zenon DEF optimisticTimelineItems, Open, First
<1>2. open \subseteq 1 .. N /\ first \subseteq open
  BY DEF Open, First
<1> HIDE DEF open, rows
<1>3. N \in Nat /\ open \subseteq Nat /\ first \subseteq Nat \ {0}
  <2>1. 1 .. N \subseteq Nat \ {0} /\ Nat \ {0} \subseteq Nat
    OBVIOUS
  <2> HIDE DEF first
  <2>2. QED
    BY <1>2, <2>1, Zenon
<1>4. \A k, l \in first : RowId(sent[k]) = RowId(sent[l]) => k = l
  <2> SUFFICES ASSUME NEW k \in first, NEW l \in first, RowId(sent[k]) = RowId(sent[l]) PROVE k = l
    OBVIOUS
  <2>1. ~ (l < k) /\ ~ (k < l)
    BY <1>2, Zenon DEF First
  <2>2. QED
    BY <1>3, <2>1
<1>5. \A k \in open : \E l \in first : RowId(sent[l]) = RowId(sent[k])
  <2> TAKE k \in open
  <2> DEFINE T == {l \in open : RowId(sent[l]) = RowId(sent[k])}
  <2>1. T \subseteq Nat /\ T # {}
    BY <1>3
  <2>2. PICK l \in T : \A m \in T : l <= m
    <3> HIDE DEF T
    <3>1. QED
      BY <2>1, LeastNumber
  <2>3. l \in open /\ RowId(sent[l]) = RowId(sent[k])
    BY <2>2
  <2>4. ASSUME NEW m \in open, m < l PROVE RowId(sent[m]) # RowId(sent[l])
    <3>1. ~ (l <= m)
      BY <1>3, <2>3, <2>4
    <3>2. m \notin T
      BY <2>2, <3>1, Zenon
    <3>3. QED
      BY <2>3, <2>4, <3>2, Zenon
  <2>5. l \in first
    BY <2>3, <2>4, Zenon DEF First
  <2>6. QED
    BY <2>3, <2>5
<1>6. \E f : IsIt(f)
  <2> HIDE DEF first
  <2>1. \A f : IsRows(f, first, sent) <=> IsIt(f)
    BY Zenon DEF IsRows
  <2>2. QED
    BY <1>3, <2>1, RowsExist
<1>7. IsIt(result)
  <2> HIDE DEF IsIt
  <2>1. QED
    BY <1>6, Zenon
<1>8. IsRows(result, first, sent)
  <2> HIDE DEF first, result
  <2>1. QED
    BY <1>7, Zenon DEF IsRows
<1> HIDE DEF first, result, IsIt
<1>9. Listed(rows, N, first, sent)
  BY <1>1, <1>3, <1>4, <1>8, RowsFacts
<1>10. \A k \in first : k <= N
  BY <1>2, <1>3
<1>11. \A m : OptimisticRow(m).id = RowId(m)
  BY DEF OptimisticRow
<1>12. \A p \in 1 .. Len(rows) : \E k \in open : rows[p] = OptimisticRow(sent[k])
  BY <1>2, <1>9, Zenon DEF Listed
<1>13. \A k \in open : \E p \in 1 .. Len(rows) : rows[p].id = RowId(sent[k])
  <2> TAKE k \in open
  <2>1. PICK l \in first : RowId(sent[l]) = RowId(sent[k])
    BY <1>5
  <2>2. PICK p \in 1 .. Len(rows) : rows[p] = OptimisticRow(sent[l])
    BY <1>9, <1>10, Zenon DEF Listed
  <2>3. QED
    BY <1>11, <2>1, <2>2, Zenon
<1>14. QED
  BY <1>9, <1>12, <1>13, Zenon DEF Listed, rows, open

---------------------------------------------------------------------------
(* Decisions and failures *)

(* The elements of a finite set in some order, each once.                  *)
LEMMA SetAsSequence ==
  ASSUME NEW S, IsFiniteSet(S)
  PROVE  LET q == SetToSeq(S)
         IN  /\ IsSequence(q)
             /\ \A i \in 1 .. Len(q) : q[i] \in S
             /\ \A x \in S : \E i \in 1 .. Len(q) : q[i] = x
             /\ \A i, j \in 1 .. Len(q) : q[i] = q[j] => i = j
<1> DEFINE n == Cardinality(S)
           q == SetToSeq(S)
<1>1. n \in Nat /\ ExistsBijection(1 .. n, S)
  BY FS_CardinalityType
<1>2. q = CHOOSE f \in [1 .. n -> S] : IsInjective(f)
  BY Zenon DEF SetToSeq
<1> HIDE DEF n, q
<1>3. PICK f : f \in Bijection(1 .. n, S)
  BY <1>1, Zenon DEF ExistsBijection
<1>4. f \in [1 .. n -> S] /\ IsInjective(f)
  BY <1>3, Zenon DEF Bijection, Injection
<1>5. q \in [1 .. n -> S] /\ IsInjective(q)
  BY <1>2, <1>4, Zenon
<1>6. q \in Injection(1 .. n, S)
  BY <1>5, Zenon DEF Injection
<1>7. Cardinality(1 .. n) = n
  <2>1. 0 \in Int /\ 1 \in Int /\ n \in Int /\ ~ (1 > n) => n - 1 + 1 = n
    BY <1>1
  <2>2. 1 > n => n = 0
    BY <1>1
  <2>3. Cardinality(1 .. n) = IF 1 > n THEN 0 ELSE n - 1 + 1
    BY <1>1, FS_Interval
  <2>4. QED
    BY <1>1, <2>1, <2>2, <2>3
<1>8. q \in Surjection(1 .. n, S)
  BY <1>6, <1>7, FS_Injection DEF n
<1>9. \A x \in S : \E i \in 1 .. n : q[i] = x
  BY <1>8, Zenon DEF Surjection
<1>10. DOMAIN q = 1 .. n /\ \A i \in 1 .. n : q[i] \in S
  BY <1>5, Zenon
<1>11. q \in Seq(S) /\ Len(q) = n
  BY <1>1, <1>5
<1>12. IsSequence(q)
  BY <1>11, Zenon DEF IsSequence
<1>13. \A i, j \in 1 .. n : q[i] = q[j] => i = j
  BY <1>5, <1>10, Zenon DEF IsInjective
<1>14. QED
  BY <1>9, <1>10, <1>11, <1>12, <1>13, Zenon DEF q

LEMMA ImageIsFinite ==
  ASSUME NEW S, IsFiniteSet(S), NEW f, DOMAIN f = S
  PROVE  IsFiniteSet({f[x] : x \in S})
<1> DEFINE T == {f[x] : x \in S}
           g == [x \in S |-> f[x]]
<1>1. g \in [S -> T] /\ \A t \in T : \E x \in S : g[x] = t
  BY Zenon
<1>2. g \in Surjection(S, T)
  <2> HIDE DEF g, T
  <2>1. QED
    BY <1>1, Zenon DEF Surjection
<1>3. QED
  BY <1>2, FS_Surjection

Distinct(q) == \A i, j \in 1 .. Len(q) : q[i].id = q[j].id => i = j
HasId(q, id) == \E i \in 1 .. Len(q) : q[i].id = id

(* Rows with different keys, one list behind the other.                    *)
LEMMA JointRows ==
  ASSUME NEW p, NEW q, IsSequence(p), IsSequence(q), Distinct(p), Distinct(q),
         \A id : ~ (HasId(p, id) /\ HasId(q, id))
  PROVE  /\ IsSequence(p \o q) /\ Distinct(p \o q)
         /\ \A id : HasId(p \o q, id) <=> HasId(p, id) \/ HasId(q, id)
<1> DEFINE r == p \o q
           m == Len(p)
           n == Len(q)
<1>1. /\ IsSequence(r) /\ Len(r) = m + n
      /\ \A i \in 1 .. m : r[i] = p[i]
      /\ \A i \in 1 .. n : r[m + i] = q[i]
  BY Joint
<1>2. m \in Nat /\ n \in Nat
  BY SequenceFacts
<1> HIDE DEF r, m, n
<1>3. \A i \in 1 .. m : i \in 1 .. m + n
  BY <1>2
<1>4. \A i \in 1 .. n : m + i \in 1 .. m + n
  BY <1>2
<1>5. \A i \in 1 .. m + n : i \in 1 .. m \/ \E j \in 1 .. n : i = m + j
  BY <1>2, JointPlaces
<1>6. \A id : HasId(r, id) <=> HasId(p, id) \/ HasId(q, id)
  <2> TAKE id
  <2>1. HasId(p, id) => HasId(r, id)
    BY <1>1, <1>3, Zenon DEF HasId, m
  <2>2. HasId(q, id) => HasId(r, id)
    BY <1>1, <1>4, Zenon DEF HasId, n
  <2>3. ASSUME NEW i \in 1 .. m + n, r[i].id = id PROVE HasId(p, id) \/ HasId(q, id)
    <3>1. CASE i \in 1 .. m
      <4>1. p[i].id = id
        BY <1>1, <2>3, <3>1, Zenon
      <4>2. QED
        BY <3>1, <4>1, Zenon DEF HasId, m
    <3>2. CASE i \notin 1 .. m
      <4>1. PICK j \in 1 .. n : i = m + j
        BY <1>5, <3>2, Zenon
      <4>2. q[j].id = id
        BY <1>1, <2>3, <4>1, Zenon
      <4>3. QED
        BY <4>2, Zenon DEF HasId, n
    <3>3. QED
      BY <3>1, <3>2
  <2>4. HasId(r, id) => HasId(p, id) \/ HasId(q, id)
    BY <1>1, <2>3, Zenon DEF HasId
  <2>5. QED
    BY <2>1, <2>2, <2>4
<1>7. Distinct(r)
  <2>1. SUFFICES ASSUME NEW i \in 1 .. m + n, NEW j \in 1 .. m + n, r[i].id = r[j].id PROVE i = j
    BY <1>1, Zenon DEF Distinct
  <2>2. ASSUME NEW a \in 1 .. m, NEW b \in 1 .. n, r[a].id = r[m + b].id PROVE FALSE
    <3>1. HasId(p, r[a].id)
      BY <1>1, Zenon DEF HasId, m
    <3>2. HasId(q, r[a].id)
      BY <1>1, <2>2, Zenon DEF HasId, n
    <3>3. QED
      BY <3>1, <3>2, Zenon
  <2>3. CASE i \in 1 .. m /\ j \in 1 .. m
    BY <1>1, <2>1, <2>3, Zenon DEF Distinct, m
  <2>4. CASE i \in 1 .. m /\ j \notin 1 .. m
    <3>1. PICK b \in 1 .. n : j = m + b
      BY <1>5, <2>4, Zenon
    <3>2. QED
      BY <2>1, <2>2, <2>4, <3>1, Zenon
  <2>5. CASE i \notin 1 .. m /\ j \in 1 .. m
    <3>1. PICK b \in 1 .. n : i = m + b
      BY <1>5, <2>5, Zenon
    <3>2. r[j].id = r[m + b].id
      BY <2>1, <3>1, Zenon
    <3>3. QED
      BY <2>2, <2>5, <3>2, Zenon
  <2>6. CASE i \notin 1 .. m /\ j \notin 1 .. m
    <3>1. PICK a \in 1 .. n : i = m + a
      BY <1>5, <2>6, Zenon
    <3>2. PICK b \in 1 .. n : j = m + b
      BY <1>5, <2>6, Zenon
    <3>3. q[a].id = q[b].id
      BY <1>1, <2>1, <3>1, <3>2, Zenon
    <3>4. a = b
      BY <3>3, Zenon DEF Distinct, n
    <3>5. QED
      BY <3>1, <3>2, <3>4, Zenon
  <2>7. QED
    BY <2>3, <2>4, <2>5, <2>6, Zenon
<1>8. QED
  BY <1>1, <1>6, <1>7, Zenon DEF r

(* The rows of a finite set, one for each element and with its key.        *)
LEMMA SetAsRows ==
  ASSUME NEW S, IsFiniteSet(S), NEW f, DOMAIN f = S, \A x, y \in S : f[x].id = f[y].id => x = y
  PROVE  LET rows == SetToSeq({f[x] : x \in S})
         IN  /\ IsSequence(rows) /\ Distinct(rows)
             /\ \A id : HasId(rows, id) <=> \E x \in S : id = f[x].id
<1> DEFINE T == {f[x] : x \in S}
           rows == SetToSeq(T)
<1>1. IsFiniteSet(T)
  BY ImageIsFinite
<1>2. \A t \in T : \E x \in S : t = f[x]
  OBVIOUS
<1>3. \A x \in S : f[x] \in T
  OBVIOUS
<1> HIDE DEF T
<1>4. /\ IsSequence(rows)
      /\ \A i \in 1 .. Len(rows) : rows[i] \in T
      /\ \A t \in T : \E i \in 1 .. Len(rows) : rows[i] = t
      /\ \A i, j \in 1 .. Len(rows) : rows[i] = rows[j] => i = j
  BY <1>1, SetAsSequence
<1> HIDE DEF rows
<1>5. Distinct(rows)
  <2>1. SUFFICES ASSUME NEW i \in 1 .. Len(rows), NEW j \in 1 .. Len(rows), rows[i].id = rows[j].id PROVE i = j
    BY Zenon DEF Distinct
  <2>2. PICK x \in S : rows[i] = f[x]
    BY <1>2, <1>4, Zenon
  <2>3. PICK y \in S : rows[j] = f[y]
    BY <1>2, <1>4, Zenon
  <2>4. x = y
    BY <2>1, <2>2, <2>3, Zenon
  <2>5. rows[i] = rows[j]
    BY <2>2, <2>3, <2>4, Zenon
  <2>6. QED
    BY <1>4, <2>5
<1>6. \A id : HasId(rows, id) <=> \E x \in S : id = f[x].id
  <2> TAKE id
  <2>1. ASSUME NEW i \in 1 .. Len(rows), rows[i].id = id PROVE \E x \in S : id = f[x].id
    BY <1>2, <1>4, <2>1, Zenon
  <2>2. ASSUME NEW x \in S, id = f[x].id PROVE \E i \in 1 .. Len(rows) : rows[i].id = id
    <3>1. PICK i \in 1 .. Len(rows) : rows[i] = f[x]
      BY <1>3, <1>4, Zenon
    <3>2. QED
      BY <2>2, <3>1, Zenon
  <2>3. QED
    BY <2>1, <2>2, Zenon DEF HasId
<1>7. QED
  BY <1>4, <1>5, <1>6, Zenon DEF rows, T

(* The requests and failures of a state are finitely many.                 *)
Few(s) == IsFiniteSet(DOMAIN s.decisions) /\ IsFiniteSet(s.turnFailures)

LEMMA DecisionRows ==
  ASSUME NEW s, Few(s)
  PROVE  /\ IsSequence(Decisions(s)) /\ Distinct(Decisions(s))
         /\ \A id : HasId(Decisions(s), id) <=> \E q \in Decided(s) : id = <<"decision", q>>
<1> DEFINE S == Decided(s)
           f == [q \in S |-> [kind |-> "custom", id |-> <<"decision", q>>, state |-> DecisionState(s.decisions[q])]]
<1>1. IsFiniteSet(S)
  <2>1. S \subseteq DOMAIN s.decisions
    BY DEF Decided
  <2> HIDE DEF S
  <2>2. QED
    BY <2>1, FS_Subset DEF Few
<1> HIDE DEF S
<1>2. \A q \in S : f[q].id = <<"decision", q>>
  OBVIOUS
<1>3. \A x, y \in S : <<"decision", x>> = <<"decision", y>> => x = y
  OBVIOUS
<1>4. DOMAIN f = S /\ {f[q] : q \in S} = {[kind |-> "custom", id |-> <<"decision", q>>, state |-> DecisionState(s.decisions[q])] : q \in S}
  BY Zenon
<1>5. Decisions(s) = SetToSeq({f[q] : q \in S})
  BY <1>4, Zenon DEF Decisions, S
<1> HIDE DEF f
<1>6. \A x, y \in S : f[x].id = f[y].id => x = y
  BY <1>2, <1>3, Zenon
<1>7. /\ IsSequence(Decisions(s)) /\ Distinct(Decisions(s))
      /\ \A id : HasId(Decisions(s), id) <=> \E q \in S : id = f[q].id
  BY <1>1, <1>4, <1>5, <1>6, SetAsRows
<1>8. \A id : (\E q \in S : id = f[q].id) <=> \E q \in S : id = <<"decision", q>>
  BY <1>2, Zenon
<1>9. QED
  BY <1>7, <1>8, Zenon DEF S

LEMMA FailureRows ==
  ASSUME NEW s, Few(s)
  PROVE  /\ IsSequence(Failures(s)) /\ Distinct(Failures(s))
         /\ \A id : HasId(Failures(s), id) <=> \E t \in s.turnFailures : id = <<"failure", t>>
<1> DEFINE S == s.turnFailures
           f == [t \in S |-> [kind |-> "custom", id |-> <<"failure", t>>]]
<1>1. IsFiniteSet(S)
  BY DEF Few
<1> HIDE DEF S
<1>2. \A t \in S : f[t].id = <<"failure", t>>
  OBVIOUS
<1>3. \A x, y \in S : <<"failure", x>> = <<"failure", y>> => x = y
  OBVIOUS
<1>4. DOMAIN f = S /\ {f[t] : t \in S} = {[kind |-> "custom", id |-> <<"failure", t>>] : t \in S}
  BY Zenon
<1>5. Failures(s) = SetToSeq({f[t] : t \in S})
  BY <1>4, Zenon DEF Failures, S
<1> HIDE DEF f
<1>6. \A x, y \in S : f[x].id = f[y].id => x = y
  BY <1>2, <1>3, Zenon
<1>7. /\ IsSequence(Failures(s)) /\ Distinct(Failures(s))
      /\ \A id : HasId(Failures(s), id) <=> \E t \in S : id = f[t].id
  BY <1>1, <1>4, <1>5, <1>6, SetAsRows
<1>8. \A id : (\E t \in S : id = f[t].id) <=> \E t \in S : id = <<"failure", t>>
  BY <1>2, Zenon
<1>9. QED
  BY <1>7, <1>8, Zenon DEF S

(* A list of outgoing messages.                                            *)
Outbox(sent) ==
    /\ Len(sent) \in Nat /\ DOMAIN sent = 1 .. Len(sent)
    /\ \A k \in DOMAIN sent : sent[k].turn \in Turns \cup {None}

Additional(sessionId, s, sent) == Decisions(s) \o Failures(s) \o optimisticTimelineItems(sessionId, s, sent)

LEMMA KeysDiffer ==
  ASSUME NEW m, m.turn \in Turns \cup {None}, NEW q, NEW t
  PROVE  RowId(m) # <<"decision", q>> /\ RowId(m) # <<"failure", t>> /\ <<"decision", q>> # <<"failure", t>>
<1>1. "optimistic" # "decision" /\ "optimistic" # "failure" /\ "decision" # "failure"
  OBVIOUS
<1>2. m.turn \in Turns => m.turn # "decision" /\ m.turn # "failure"
  BY PresentationAssumption, Zenon
<1>3. RowId(m) = <<"optimistic", m.id>> \/ (m.turn \in Turns /\ RowId(m) = <<m.turn, "user">>)
  BY Zenon DEF RowId
<1>4. \A a, b, c, d : <<a, b>> = <<c, d>> => a = c
  OBVIOUS
<1>5. QED
  BY <1>1, <1>2, <1>3, <1>4, Zenon

(* The rows that are not of the journal, each with a key of its own.       *)
LEMMA AdditionalFacts ==
  ASSUME NEW sessionId, NEW s, Few(s), NEW sent, Outbox(sent)
  PROVE  LET rows == Additional(sessionId, s, sent)
         IN  /\ IsSequence(rows) /\ Distinct(rows)
             /\ \A id : HasId(rows, id) <=> \/ \E q \in Decided(s) : id = <<"decision", q>>
                                            \/ \E t \in s.turnFailures : id = <<"failure", t>>
                                            \/ \E k \in Open(sessionId, s, sent) : id = RowId(sent[k])
<1> DEFINE a == Decisions(s)
           b == Failures(s)
           c == optimisticTimelineItems(sessionId, s, sent)
           open == Open(sessionId, s, sent)
<1>1. /\ IsSequence(a) /\ Distinct(a)
      /\ \A id : HasId(a, id) <=> \E q \in Decided(s) : id = <<"decision", q>>
  BY DecisionRows
<1>2. /\ IsSequence(b) /\ Distinct(b)
      /\ \A id : HasId(b, id) <=> \E t \in s.turnFailures : id = <<"failure", t>>
  BY FailureRows
<1>3. /\ IsSequence(c)
      /\ \A p \in 1 .. Len(c) : \E k \in open : c[p] = OptimisticRow(sent[k])
      /\ \A k \in open : \E p \in 1 .. Len(c) : c[p].id = RowId(sent[k])
      /\ \A p, q \in 1 .. Len(c) : c[p].id = c[q].id => p = q
  BY OptimisticFacts DEF Outbox
<1>4. \A k \in open : sent[k].turn \in Turns \cup {None}
  BY DEF Open, Outbox
<1> HIDE DEF a, b, c, open
<1>5. \A m : OptimisticRow(m).id = RowId(m)
  BY DEF OptimisticRow
<1>6. Distinct(c)
  BY <1>3, Zenon DEF Distinct
<1>7. \A id : HasId(c, id) <=> \E k \in open : id = RowId(sent[k])
  <2> TAKE id
  <2>1. ASSUME NEW p \in 1 .. Len(c), c[p].id = id PROVE \E k \in open : id = RowId(sent[k])
    BY <1>3, <1>5, <2>1, Zenon
  <2>2. ASSUME NEW k \in open, id = RowId(sent[k]) PROVE \E p \in 1 .. Len(c) : c[p].id = id
    BY <1>3, <2>2, Zenon
  <2>3. QED
    BY <2>1, <2>2, Zenon DEF HasId
<1>8. \A id : ~ (HasId(a, id) /\ HasId(b, id))
  <2>1. \A q, t : <<"decision", q>> # <<"failure", t>>
    OBVIOUS
  <2>2. QED
    BY <1>1, <1>2, <2>1, Zenon
<1>9. /\ IsSequence(a \o b) /\ Distinct(a \o b)
      /\ \A id : HasId(a \o b, id) <=> HasId(a, id) \/ HasId(b, id)
  BY <1>1, <1>2, <1>8, JointRows
<1>10. \A id : ~ (HasId(a \o b, id) /\ HasId(c, id))
  <2> SUFFICES ASSUME NEW id, HasId(a \o b, id), HasId(c, id) PROVE FALSE
    OBVIOUS
  <2>1. PICK k \in open : id = RowId(sent[k])
    BY <1>7, Zenon
  <2>2. \A q, t : RowId(sent[k]) # <<"decision", q>> /\ RowId(sent[k]) # <<"failure", t>>
    BY <1>4, KeysDiffer
  <2>3. HasId(a, id) \/ HasId(b, id)
    BY <1>9, Zenon
  <2>4. QED
    BY <1>1, <1>2, <2>1, <2>2, <2>3, Zenon
<1>11. /\ IsSequence(a \o b \o c) /\ Distinct(a \o b \o c)
       /\ \A id : HasId(a \o b \o c, id) <=> HasId(a \o b, id) \/ HasId(c, id)
  BY <1>3, <1>6, <1>9, <1>10, JointRows
<1>12. Additional(sessionId, s, sent) = a \o b \o c
  BY Zenon DEF Additional, a, b, c
<1>13. QED
  BY <1>1, <1>2, <1>7, <1>9, <1>11, <1>12, Zenon DEF open

---------------------------------------------------------------------------
(* The rows of the journal *)

(* The items of a state: each of a turn, known by its identity, and the one
   of the user's message is the one that is called so.                     *)
Keyed(items) ==
    /\ IsSequence(items) /\ AllGenuine(items)
    /\ \A i \in DOMAIN items : items[i].turn \in Turns /\ (items[i].role = "user" <=> items[i].id = "user")
    /\ \A i, j \in DOMAIN items : items[i].turn = items[j].turn /\ items[i].id = items[j].id => i = j

JournalRows(s, locale) == WithLastTurn(s, locale, DirectItems(s, locale), LastTurn(s, locale))

LEMMA RowKey ==
  ASSUME NEW item, Genuine(item), NEW s, NEW locale
  PROVE  timelineItem(item, s, locale).id = <<item.turn, item.id>>
<1>1. item.role \in {"user", "assistant", "plan", "activity", "tool"}
  BY DEF Genuine, Roles
<1>2. CASE item.role \in {"user", "assistant"}
  BY <1>2 DEF timelineItem
<1>3. CASE item.role = "plan"
  BY <1>3 DEF timelineItem
<1>4. CASE item.role \in {"tool", "activity"}
  BY <1>4 DEF timelineItem
<1>5. QED
  BY <1>1, <1>2, <1>3, <1>4

LEMMA LengthsDiffer ==
  ASSUME NEW x, NEW a, NEW b
  PROVE  <<x>> # <<a, b>>
<1>1. Len(<<x>>) = 1 /\ Len(<<a, b>>) = 2
  OBVIOUS
<1>2. QED
  BY <1>1

(* The rows of the journal, each with a key of its own.                    *)
LEMMA JournalFacts ==
  ASSUME NEW s, Keyed(s.items), NEW locale
  PROVE  LET rows == JournalRows(s, locale)
         IN  /\ IsSequence(rows) /\ Distinct(rows)
             /\ \A i \in DOMAIN s.items : HasId(rows, <<s.items[i].turn, s.items[i].id>>)
             /\ \A id : HasId(rows, id) =>
                   id = <<"last-turn">> \/ \E i \in DOMAIN s.items : id = <<s.items[i].turn, s.items[i].id>>
<1> DEFINE items == s.items
           n == Len(items)
           rows == DirectItems(s, locale)
           last == LastTurn(s, locale)
           key(i) == <<items[i].turn, items[i].id>>
<1>1. n \in Nat /\ DOMAIN items = 1 .. n
  BY SequenceFacts DEF Keyed
<1> HIDE DEF n
<1>2. DOMAIN rows = 1 .. n /\ rows = [i \in 1 .. n |-> rows[i]]
  <2>1. rows = [i \in DOMAIN items |-> timelineItem(items[i], s, locale)]
    BY DEF DirectItems
  <2> HIDE DEF rows
  <2>2. QED
    BY <1>1, <2>1, Zenon
<1>3. IsSequence(rows)
  <2> HIDE DEF rows
  <2>1. QED
    BY <1>1, <1>2, FunctionIsSequence
<1>4. Len(rows) = n
  <2> HIDE DEF rows
  <2>1. Len(rows) \in Nat /\ DOMAIN rows = 1 .. Len(rows)
    BY <1>3, SequenceFacts
  <2>2. QED
    BY <1>1, <1>2, <2>1
<1>5. \A i \in 1 .. n : rows[i].id = key(i)
  <2> TAKE i \in 1 .. n
  <2>1. rows[i] = timelineItem(items[i], s, locale)
    BY <1>1, Zenon DEF DirectItems
  <2>2. Genuine(items[i])
    BY <1>1, Zenon DEF Keyed, AllGenuine
  <2> HIDE DEF rows
  <2>3. timelineItem(items[i], s, locale).id = <<items[i].turn, items[i].id>>
    BY <2>2, RowKey
  <2>4. QED
    BY <2>1, <2>3, Zenon
<1> HIDE DEF rows
<1>6. Distinct(rows)
  <2>1. SUFFICES ASSUME NEW i \in 1 .. n, NEW j \in 1 .. n, rows[i].id = rows[j].id PROVE i = j
    BY <1>4, Zenon DEF Distinct
  <2>2. <<items[i].turn, items[i].id>> = <<items[j].turn, items[j].id>>
    BY <1>5, <2>1, Zenon
  <2>3. items[i].turn = items[j].turn /\ items[i].id = items[j].id
    BY <2>2
  <2>4. QED
    BY <1>1, <2>3, Zenon DEF Keyed
<1>7. \A id : HasId(rows, id) <=> \E i \in 1 .. n : id = key(i)
  <2> HIDE DEF key
  <2>1. QED
    BY <1>4, <1>5, Zenon DEF HasId
<1>8. last.id = <<"last-turn">>
  BY DEF LastTurn
<1> HIDE DEF last
<1>9. CASE ~ ShowsLastTurn(s)
  <2>1. JournalRows(s, locale) = rows
    BY <1>9, Zenon DEF JournalRows, WithLastTurn, rows
  <2>2. QED
    BY <1>1, <1>3, <1>6, <1>7, <2>1, Zenon
<1>10. CASE ShowsLastTurn(s)
  <2> DEFINE all == Append(rows, last)
  <2>1. JournalRows(s, locale) = all
    BY <1>10, Zenon DEF JournalRows, WithLastTurn, rows, last
  <2>2. /\ IsSequence(all) /\ Len(all) = n + 1
        /\ \A i \in 1 .. n : all[i] = rows[i]
        /\ all[n + 1] = last
    BY <1>3, <1>4, Appended
  <2> HIDE DEF all
  <2>3. \A i \in 1 .. n + 1 : i \in 1 .. n \/ i = n + 1
    BY <1>1
  <2>4. n + 1 \in 1 .. n + 1 /\ \A i \in 1 .. n : i \in 1 .. n + 1
    BY <1>1
  <2>5. \A i \in 1 .. n : rows[i].id # <<"last-turn">>
    BY <1>5, LengthsDiffer, Zenon
  <2>6. Distinct(all)
    <3>1. SUFFICES ASSUME NEW i \in 1 .. n + 1, NEW j \in 1 .. n + 1, all[i].id = all[j].id PROVE i = j
      BY <2>2, Zenon DEF Distinct
    <3>2. CASE i \in 1 .. n /\ j \in 1 .. n
      BY <1>4, <1>6, <2>2, <3>1, <3>2, Zenon DEF Distinct
    <3>3. CASE i \in 1 .. n /\ j \notin 1 .. n
      BY <1>8, <2>2, <2>3, <2>5, <3>1, <3>3, Zenon
    <3>4. CASE i \notin 1 .. n /\ j \in 1 .. n
      BY <1>8, <2>2, <2>3, <2>5, <3>1, <3>4, Zenon
    <3>5. CASE i \notin 1 .. n /\ j \notin 1 .. n
      BY <2>3, <3>5, Zenon
    <3>6. QED
      BY <3>2, <3>3, <3>4, <3>5, Zenon
  <2>7. \A i \in DOMAIN items : HasId(all, key(i))
    <3> HIDE DEF key
    <3>1. QED
      BY <1>1, <1>5, <2>2, <2>4, Zenon DEF HasId
  <2>8. \A id : HasId(all, id) => id = <<"last-turn">> \/ \E i \in DOMAIN items : id = key(i)
    <3> HIDE DEF key
    <3>1. SUFFICES ASSUME NEW id, NEW i \in 1 .. n + 1, all[i].id = id
                   PROVE  id = <<"last-turn">> \/ \E j \in DOMAIN items : id = key(j)
      BY <2>2, Zenon DEF HasId
    <3>2. CASE i \in 1 .. n
      BY <1>1, <1>5, <2>2, <3>1, <3>2, Zenon
    <3>3. CASE i \notin 1 .. n
      BY <1>8, <2>2, <2>3, <3>1, <3>3, Zenon
    <3>4. QED
      BY <3>2, <3>3
  <2>9. QED
    BY <2>1, <2>2, <2>6, <2>7, <2>8, Zenon
<1>11. QED
  BY <1>9, <1>10

(* No row of the journal has the key of another row.                       *)
LEMMA RowsApart ==
  ASSUME NEW sessionId, NEW s, Keyed(s.items), Few(s), NEW sent, Outbox(sent), NEW locale, NEW id
  PROVE  ~ (HasId(JournalRows(s, locale), id) /\ HasId(Additional(sessionId, s, sent), id))
<1> DEFINE open == Open(sessionId, s, sent)
           key(i) == <<s.items[i].turn, s.items[i].id>>
<1>1. SUFFICES ASSUME HasId(JournalRows(s, locale), id), HasId(Additional(sessionId, s, sent), id) PROVE FALSE
  OBVIOUS
<1>2. id = <<"last-turn">> \/ \E i \in DOMAIN s.items : id = key(i)
  BY <1>1, JournalFacts
<1>3. \/ \E q \in Decided(s) : id = <<"decision", q>>
      \/ \E t \in s.turnFailures : id = <<"failure", t>>
      \/ \E k \in open : id = RowId(sent[k])
  BY <1>1, AdditionalFacts
<1>4. ASSUME NEW m PROVE RowId(m) = <<"optimistic", m.id>> \/ RowId(m) = <<m.turn, "user">>
  BY Zenon DEF RowId
<1>5. id # <<"last-turn">>
  <2>1. \E a, b : id = <<a, b>>
    BY <1>3, <1>4, Zenon
  <2>2. QED
    BY <2>1, LengthsDiffer, Zenon
<1>6. PICK i \in DOMAIN s.items : id = <<s.items[i].turn, s.items[i].id>>
  BY <1>2, <1>5, Zenon
<1> DEFINE turn == s.items[i].turn
           name == s.items[i].id
<1>7. turn \in Turns /\ turn \notin {"optimistic", "decision", "failure"}
  <2>1. turn \in Turns
    BY Zenon DEF Keyed
  <2>2. QED
    BY <2>1, PresentationAssumption, Zenon
<1>8. s.items[i].role = "user" <=> name = "user"
  BY Zenon DEF Keyed
<1>9. id = <<turn, name>>
  BY <1>6, Zenon
<1> HIDE DEF turn, name
<1>10. \A x, y : <<turn, name>> = <<x, y>> => turn = x /\ name = y
  OBVIOUS
<1>11. \A q : id # <<"decision", q>> /\ id # <<"failure", q>> /\ id # <<"optimistic", q>>
  BY <1>7, <1>9, <1>10, Zenon
<1>12. PICK k \in open : id = RowId(sent[k])
  BY <1>3, <1>11, Zenon
<1>13. id = <<sent[k].turn, "user">>
  BY <1>4, <1>11, <1>12, Zenon
<1>14. turn = sent[k].turn /\ name = "user"
  BY <1>9, <1>10, <1>13, Zenon
<1>15. s.items[i].role = "user" /\ s.items[i].turn = sent[k].turn
  BY <1>8, <1>14, Zenon DEF turn
<1>16. QED
  BY <1>12, <1>15 DEF Open

(* The rows on screen, for any state, outbox and language.                 *)
LEMMA TimelineFacts ==
  ASSUME NEW sessionId, NEW s, Keyed(s.items), Few(s), NEW sent, Outbox(sent), NEW locale,
         NEW native, native = JournalRows(s, locale),
         NEW items, items = mergeTimelineItems(native, Additional(sessionId, s, sent))
  PROVE  /\ \A i, j \in DOMAIN items : items[i].id = items[j].id => i = j
         /\ \A id : HasId(native, id) \/ HasId(Additional(sessionId, s, sent), id) => \E i \in DOMAIN items : items[i].id = id
         /\ InPlace(native, items)
<1> DEFINE rows == Additional(sessionId, s, sent)
<1>1. IsSequence(native) /\ Distinct(native)
  BY JournalFacts
<1>2. IsSequence(rows) /\ Distinct(rows)
  BY AdditionalFacts
<1>3. \A id : ~ (HasId(native, id) /\ HasId(rows, id))
  BY RowsApart
<1> HIDE DEF rows
<1>4. PICK order, dated, cursor :
         /\ SortedBy(order, dated, rows) /\ InOrder(dated) /\ Loop(cursor, native, dated)
         /\ Merged(mergeTimelineItems(native, rows), native, dated, cursor)
  BY <1>1, <1>2, MergeFacts
<1>5. Merged(items, native, dated, cursor)
  BY <1>4, Zenon DEF rows
<1>6. /\ IsSequence(dated) /\ Len(dated) = Len(rows)
      /\ \A k \in DOMAIN rows : order[k] \in DOMAIN rows /\ dated[k] = rows[order[k]]
      /\ \A k, l \in DOMAIN rows : order[k] = order[l] => k = l
      /\ \A i \in DOMAIN rows : \E k \in DOMAIN rows : order[k] = i
  BY <1>4, Zenon DEF SortedBy
<1>7. DOMAIN rows = 1 .. Len(dated) /\ DOMAIN native = 1 .. Len(native)
  BY <1>1, <1>2, <1>6, SequenceFacts
<1>8. \A k \in 1 .. Len(dated) : HasId(rows, dated[k].id)
  BY <1>6, <1>7, Zenon DEF HasId
<1>9. Apart(native, dated)
  <2>1. \A m, n \in 1 .. Len(native) : native[m].id = native[n].id => m = n
    BY <1>1, Zenon DEF Distinct
  <2>2. \A k, l \in 1 .. Len(dated) : dated[k].id = dated[l].id => k = l
    <3> TAKE k, l \in 1 .. Len(dated)
    <3>1. order[k] \in 1 .. Len(rows) /\ dated[k] = rows[order[k]] /\ order[l] \in 1 .. Len(rows) /\ dated[l] = rows[order[l]]
      BY <1>6, <1>7, Zenon
    <3>2. dated[k].id = dated[l].id => order[k] = order[l]
      BY <1>2, <3>1, Zenon DEF Distinct
    <3>3. QED
      BY <1>6, <1>7, <3>2, Zenon
  <2>3. \A m \in 1 .. Len(native), k \in 1 .. Len(dated) : native[m].id # dated[k].id
    <3> TAKE m \in 1 .. Len(native), k \in 1 .. Len(dated)
    <3>1. HasId(native, native[m].id)
      BY Zenon DEF HasId
    <3>2. QED
      BY <1>3, <1>8, <3>1, Zenon
  <2>4. QED
    BY <2>1, <2>2, <2>3, Zenon DEF Apart
<1>10. /\ \A i, j \in DOMAIN items : items[i].id = items[j].id => i = j
       /\ \A n \in 1 .. Len(native) : n + cursor[n] \in DOMAIN items /\ items[n + cursor[n]] = native[n]
       /\ \A k \in 1 .. Len(dated) : \E i \in DOMAIN items : items[i] = dated[k]
  BY <1>1, <1>4, <1>5, <1>6, <1>9, MergedOnce
<1>11. \A id : HasId(native, id) => \E i \in DOMAIN items : items[i].id = id
  <2> SUFFICES ASSUME NEW id, NEW n \in 1 .. Len(native), native[n].id = id PROVE \E i \in DOMAIN items : items[i].id = id
    BY Zenon DEF HasId
  <2>1. n + cursor[n] \in DOMAIN items /\ items[n + cursor[n]] = native[n]
    BY <1>10, Zenon
  <2>2. QED
    BY <2>1
<1>12. \A id : HasId(rows, id) => \E i \in DOMAIN items : items[i].id = id
  <2> SUFFICES ASSUME NEW id, NEW p \in 1 .. Len(rows), rows[p].id = id PROVE \E i \in DOMAIN items : items[i].id = id
    BY Zenon DEF HasId
  <2>1. PICK k \in 1 .. Len(dated) : order[k] = p
    BY <1>6, <1>7, Zenon
  <2>2. dated[k] = rows[p]
    BY <1>6, <1>7, <2>1, Zenon
  <2>3. PICK i \in DOMAIN items : items[i] = dated[k]
    BY <1>10, Zenon
  <2>4. QED
    BY <2>2, <2>3
<1>13. InPlace(native, items)
  <2>1. Loop(cursor, native, dated) /\ InOrder(dated) /\ IsSequence(native) /\ IsSequence(dated)
    BY <1>1, <1>4, <1>6
  <2>2. QED
    BY <1>5, <1>9, <2>1, MergedInPlace, Zenon
<1>14. QED
  BY <1>10, <1>11, <1>12, <1>13, Zenon DEF rows

---------------------------------------------------------------------------
(* What an event does to the keys of the items *)

Sound(s) == Keyed(s.items) /\ s.activeTurnId \in Turns \cup {None} /\ Few(s)

LEMMA KeyedSame ==
  ASSUME NEW q, Keyed(q), NEW p, IsSequence(p), AllGenuine(p), DOMAIN p = DOMAIN q,
         \A i \in DOMAIN q : p[i].turn = q[i].turn /\ p[i].id = q[i].id /\ p[i].role = q[i].role
  PROVE  Keyed(p)
  BY Zenon DEF Keyed

LEMMA KeyedMore ==
  ASSUME NEW q, Keyed(q), NEW x, Genuine(x), x.turn \in Turns, x.role = "user" <=> x.id = "user",
         \A i \in DOMAIN q : ~ (q[i].turn = x.turn /\ q[i].id = x.id)
  PROVE  Keyed(Append(q, x))
<1> DEFINE p == Append(q, x)
           n == Len(q)
<1>1. IsSequence(q) /\ AllGenuine(q)
  BY Zenon DEF Keyed
<1>2. /\ IsSequence(p) /\ Len(p) = n + 1 /\ n \in Nat
      /\ \A i \in 1 .. n : p[i] = q[i]
      /\ p[n + 1] = x
  BY <1>1, Appended
<1>3. AllGenuine(p)
  BY <1>1, AppendChanges DEF Changes
<1> HIDE DEF p
<1>4. DOMAIN p = 1 .. n + 1 /\ DOMAIN q = 1 .. n
  BY <1>1, <1>2, SequenceFacts
<1>5. \A i \in DOMAIN p : i \in DOMAIN q \/ i = n + 1
  BY <1>2, <1>4
<1> HIDE DEF n
<1>6. \A i \in DOMAIN q : p[i] = q[i]
  BY <1>2, <1>4
<1>7. \A i \in DOMAIN p : p[i].turn \in Turns /\ (p[i].role = "user" <=> p[i].id = "user")
  <2> TAKE i \in DOMAIN p
  <2>1. CASE i \in DOMAIN q
    BY <1>6, <2>1, Zenon DEF Keyed
  <2>2. CASE i = n + 1
    BY <1>2, <2>2, Zenon
  <2>3. QED
    BY <1>5, <2>1, <2>2, Zenon
<1>8. \A i, j \in DOMAIN p : p[i].turn = p[j].turn /\ p[i].id = p[j].id => i = j
  <2> SUFFICES ASSUME NEW i \in DOMAIN p, NEW j \in DOMAIN p, p[i].turn = p[j].turn, p[i].id = p[j].id PROVE i = j
    OBVIOUS
  <2>1. CASE i \in DOMAIN q /\ j \in DOMAIN q
    BY <1>6, <2>1, Zenon DEF Keyed
  <2>2. CASE i \in DOMAIN q /\ j \notin DOMAIN q
    BY <1>2, <1>5, <1>6, <2>2, Zenon
  <2>3. CASE i \notin DOMAIN q /\ j \in DOMAIN q
    BY <1>2, <1>5, <1>6, <2>3, Zenon
  <2>4. CASE i \notin DOMAIN q /\ j \notin DOMAIN q
    BY <1>5, <2>4, Zenon
  <2>5. QED
    BY <2>1, <2>2, <2>3, <2>4, Zenon
<1>9. QED
  BY <1>2, <1>3, <1>7, <1>8, Zenon DEF Keyed, p

(* The text of an item changes, its identity does not.                     *)
LEMMA UpdatedKey ==
  ASSUME NEW old, Genuine(old), NEW e
  PROVE  LET item == UpdatedItem(old, e)
         IN  Genuine(item) /\ item.turn = old.turn /\ item.id = old.id /\ item.role = old.role
<1> DEFINE x == UpdatedItem(old, e)
<1>1. \E text, status, truncated :
         x = [old EXCEPT !.text = text, !.status = status, !.truncated = truncated]
  BY Zenon DEF UpdatedItem
<1>2. PICK text, status, truncated :
         x = [old EXCEPT !.text = text, !.status = status, !.truncated = truncated]
  BY <1>1, Zenon
<1> HIDE DEF x
<1>3. x.turn = old.turn /\ x.id = old.id /\ x.role = old.role
  BY <1>2 DEF Genuine
<1>4. Genuine(x)
  BY UpdatedGenuine DEF x
<1>5. QED
  BY <1>3, <1>4 DEF x

LEMMA ItemSound ==
  ASSUME NEW s, Whole(s), Sound(s), NEW e, e.turn \in Turns, e.role \in Roles,
         e.role = "activity" => e.item \notin WithImages, e.role = "user" <=> e.item = "user",
         NEW r, r = reduceItem(s, e)
  PROVE  Sound(r)
<1> DEFINE i == ItemIndex(s.items, e.turn, e.item)
           new == i > Len(s.items)
           old == IF new THEN NewItem(e) ELSE s.items[i]
           item == UpdatedItem(old, e)
           found == {k \in DOMAIN s.items : s.items[k].turn = e.turn /\ s.items[k].id = e.item}
<1>1. /\ Keyed(s.items) /\ IsSequence(s.items) /\ AllGenuine(s.items)
      /\ s.activeTurnId \in Turns \cup {None} /\ Few(s)
  BY Zenon DEF Sound, Keyed
<1>2. (i \in DOMAIN s.items /\ ~ new) \/ (i = Len(s.items) + 1 /\ new)
  BY <1>1, ItemIndexFacts, Zenon
<1>3. new => found = {}
  <2>1. i = IF found = {} THEN Len(s.items) + 1 ELSE CHOOSE k \in found : TRUE
    BY Zenon DEF ItemIndex
  <2>2. found # {} => i \in DOMAIN s.items
    <3> HIDE DEF i
    <3>1. QED
      BY <2>1
  <2>3. Len(s.items) \in Nat /\ DOMAIN s.items = 1 .. Len(s.items)
    BY <1>1, SequenceFacts
  <2>4. i \in DOMAIN s.items => ~ new
    <3> HIDE DEF i
    <3>1. QED
      BY <2>3
  <2>5. QED
    BY <2>2, <2>4, Zenon
<1>4. Genuine(NewItem(e)) /\ NewItem(e).turn = e.turn /\ NewItem(e).id = e.item /\ NewItem(e).role = e.role
  BY DEF Genuine, NewItem
<1>5. \E items, ok : /\ r = [s EXCEPT !.items = items, !.ok = ok]
                     /\ new => items = Append(s.items, item)
                     /\ ~ new => items = [s.items EXCEPT ![i] = item]
  <2> HIDE DEF item, i
  <2>1. CASE new
    <3>1. r = [s EXCEPT !.items = Append(s.items, item), !.ok = Len(s.items) < ItemLimit]
      BY <2>1, Zenon DEF reduceItem, item, i
    <3>2. QED
      BY <2>1, <3>1
  <2>2. CASE ~ new
    <3>1. r = [s EXCEPT !.items[i] = item, !.ok = s.items[i].role = e.role]
      BY <2>2, Zenon DEF reduceItem, item, i
    <3>2. r = [s EXCEPT !.items = [s.items EXCEPT ![i] = item], !.ok = s.items[i].role = e.role]
      BY <3>1 DEF Whole
    <3>3. QED
      BY <2>2, <3>2
  <2>3. QED
    BY <2>1, <2>2
<1>6. PICK items, ok : /\ r = [s EXCEPT !.items = items, !.ok = ok]
                       /\ new => items = Append(s.items, item)
                       /\ ~ new => items = [s.items EXCEPT ![i] = item]
  BY <1>5, Zenon
<1> HIDE DEF item, i, found
<1>7. Keyed(items)
  <2>1. CASE new
    <3>1. Genuine(item) /\ item.turn = e.turn /\ item.id = e.item /\ item.role = e.role
      BY <1>4, <2>1, UpdatedKey, Zenon DEF item
    <3>2. \A k \in DOMAIN s.items : ~ (s.items[k].turn = item.turn /\ s.items[k].id = item.id)
      BY <1>3, <2>1, <3>1 DEF found
    <3>3. Keyed(Append(s.items, item))
      BY <1>1, <3>1, <3>2, KeyedMore
    <3>4. QED
      BY <1>6, <2>1, <3>3
  <2>2. CASE ~ new
    <3>1. i \in DOMAIN s.items
      BY <1>2, <2>2
    <3>2. Genuine(s.items[i])
      BY <1>1, <3>1, Zenon DEF AllGenuine
    <3>3. Genuine(item) /\ item.turn = s.items[i].turn /\ item.id = s.items[i].id /\ item.role = s.items[i].role
      BY <2>2, <3>2, UpdatedKey, Zenon DEF item
    <3>4. items = [s.items EXCEPT ![i] = item]
      BY <1>6, <2>2
    <3>5. Changes(s.items, items, {i})
      BY <1>1, <3>1, <3>3, <3>4, ReplaceChanges
    <3>6. DOMAIN items = DOMAIN s.items /\ \A k \in DOMAIN s.items : items[k] = IF k = i THEN item ELSE s.items[k]
      BY <3>4, Zenon
    <3>7. QED
      BY <1>1, <3>3, <3>5, <3>6, KeyedSame, Zenon DEF Changes
  <2>3. QED
    BY <2>1, <2>2
<1>8. r.items = items /\ r.activeTurnId = s.activeTurnId /\ r.decisions = s.decisions /\ r.turnFailures = s.turnFailures
  BY <1>6 DEF Whole
<1>9. QED
  BY <1>1, <1>7, <1>8 DEF Sound, Few

LEMMA InputSound ==
  ASSUME NEW s, Whole(s), Sound(s), NEW e, e.kind \in {"input.request", "input.resolved"},
         NEW r, r = reduceInput(s, e)
  PROVE  Sound(r)
<1>1. IsFiniteSet(DOMAIN s.decisions) /\ IsFiniteSet(DOMAIN s.decisions \cup {e.item})
  <2>1. IsFiniteSet(DOMAIN s.decisions)
    BY Zenon DEF Sound, Few
  <2>2. QED
    BY <2>1, FS_AddElement
<1>2. \E pending, decisions : /\ r = [s EXCEPT !.pending = pending, !.decisions = decisions]
                              /\ DOMAIN decisions \in {DOMAIN s.decisions, DOMAIN s.decisions \cup {e.item}}
  <2>1. CASE e.kind = "input.request"
    <3> DEFINE request == [turn |-> e.turn, status |-> "pending", decision |-> None]
               decisions == IF e.request = "question" THEN s.decisions ELSE With(s.decisions, e.item, request)
               pending == With(s.pending, e.item, [kind |-> e.request, submitted |-> FALSE])
    <3>1. r = [s EXCEPT !.pending = pending, !.decisions = decisions]
      BY <2>1, Zenon DEF reduceInput
    <3>2. DOMAIN With(s.decisions, e.item, request) = DOMAIN s.decisions \cup {e.item}
      BY Zenon DEF With
    <3>3. DOMAIN decisions \in {DOMAIN s.decisions, DOMAIN s.decisions \cup {e.item}}
      <4> HIDE DEF request
      <4>1. QED
        BY <3>2, Zenon
    <3> HIDE DEF decisions, pending
    <3>4. QED
      BY <3>1, <3>3, Zenon
  <2>2. CASE e.kind = "input.resolved"
    <3>1. \E pending, x, y :
             r = [s EXCEPT !.pending = pending,
                           !.decisions = IF e.item \in DOMAIN s.decisions
                                         THEN [[s.decisions EXCEPT ![e.item] = x] EXCEPT ![e.item] = y] ELSE s.decisions]
      BY <2>2, Zenon DEF reduceInput
    <3>2. PICK pending, x, y :
             r = [s EXCEPT !.pending = pending,
                           !.decisions = IF e.item \in DOMAIN s.decisions
                                         THEN [[s.decisions EXCEPT ![e.item] = x] EXCEPT ![e.item] = y] ELSE s.decisions]
      BY <3>1, Zenon
    <3> DEFINE answered == [[s.decisions EXCEPT ![e.item] = x] EXCEPT ![e.item] = y]
               decisions == IF e.item \in DOMAIN s.decisions THEN answered ELSE s.decisions
    <3>3. DOMAIN answered = DOMAIN s.decisions
      BY Zenon
    <3>4. r = [s EXCEPT !.pending = pending, !.decisions = decisions]
      BY <3>2, Zenon
    <3> HIDE DEF answered
    <3>5. DOMAIN decisions \in {DOMAIN s.decisions, DOMAIN s.decisions \cup {e.item}}
      BY <3>3, Zenon
    <3> HIDE DEF decisions
    <3>6. QED
      BY <3>4, <3>5, Zenon
  <2>3. QED
    BY <2>1, <2>2, Zenon
<1>3. PICK pending, decisions : /\ r = [s EXCEPT !.pending = pending, !.decisions = decisions]
                                /\ DOMAIN decisions \in {DOMAIN s.decisions, DOMAIN s.decisions \cup {e.item}}
  BY <1>2, Zenon
<1>4. /\ r.items = s.items /\ r.activeTurnId = s.activeTurnId /\ r.turnFailures = s.turnFailures
      /\ r.decisions = decisions
  BY <1>3 DEF Whole
<1>5. IsFiniteSet(DOMAIN r.decisions)
  BY <1>1, <1>3, <1>4, Zenon
<1>6. QED
  BY <1>4, <1>5, Zenon DEF Sound, Few

LEMMA ExpiredDomain ==
  ASSUME NEW decisions PROVE DOMAIN expireDecisions(decisions) = DOMAIN decisions
  BY Zenon DEF expireDecisions

LEMMA StateSound ==
  ASSUME NEW s, Whole(s), Sound(s), NEW e, e.turn \in Turns \cup {None}, NEW r, r = reduceState(s, e)
  PROVE  Sound(r)
<1> DEFINE gone == e.status \in {"closed", "disconnected"}
           active == IF e.status \in TurnStates THEN Or(e.turn, s.activeTurnId) ELSE None
           pending == IF gone THEN <<>> ELSE s.pending
           decisions == IF gone THEN expireDecisions(s.decisions) ELSE s.decisions
<1>1. r = [s EXCEPT !.worker = e.status, !.activeTurnId = active, !.pending = pending, !.decisions = decisions]
  BY Zenon DEF reduceState
<1>2. active \in Turns \cup {None}
  BY Zenon DEF Sound, Or
<1>3. DOMAIN decisions = DOMAIN s.decisions
  BY ExpiredDomain, Zenon
<1> HIDE DEF active, pending, decisions
<1>4. /\ r.items = s.items /\ r.activeTurnId = active /\ r.turnFailures = s.turnFailures
      /\ r.decisions = decisions
  BY <1>1 DEF Whole
<1>5. QED
  BY <1>2, <1>3, <1>4, Zenon DEF Sound, Few

LEMMA EndedKey ==
  ASSUME NEW old, Genuine(old), NEW status
  PROVE  LET item == [old EXCEPT !.turnStatus = status]
         IN  item.turn = old.turn /\ item.id = old.id /\ item.role = old.role
  BY DEF Genuine

LEMMA TurnEndSound ==
  ASSUME NEW s, Whole(s), Sound(s), NEW e, NEW r, r = reduceTurnEnd(s, e)
  PROVE  Sound(r)
<1> DEFINE ended(item) == IF item.turn = e.turn THEN [item EXCEPT !.turnStatus = e.status] ELSE item
           items == [i \in DOMAIN s.items |-> ended(s.items[i])]
           decisions == expireDecisions(s.decisions)
           failures == IF e.status = "failed" THEN s.turnFailures \cup {e.turn} ELSE s.turnFailures
           active == IF s.activeTurnId = e.turn THEN None ELSE s.activeTurnId
<1>1. r = [s EXCEPT !.pending = <<>>, !.decisions = decisions, !.lastTurnStatus = e.status,
                    !.turnFailures = failures, !.activeTurnId = active, !.items = items]
  BY Zenon DEF reduceTurnEnd
<1>2. AllGenuine(s.items) /\ Keyed(s.items)
  BY Zenon DEF Sound, Keyed
<1>3. \A i \in DOMAIN s.items :
         LET item == ended(s.items[i])
         IN  item.turn = s.items[i].turn /\ item.id = s.items[i].id /\ item.role = s.items[i].role
  BY <1>2, EndedKey, Zenon DEF AllGenuine
<1> HIDE DEF ended
<1>4. DOMAIN items = DOMAIN s.items /\ \A i \in DOMAIN items : items[i] = ended(s.items[i])
  BY Zenon
<1>5. active \in Turns \cup {None}
  BY Zenon DEF Sound
<1>6. DOMAIN decisions = DOMAIN s.decisions
  BY ExpiredDomain, Zenon
<1>7. IsFiniteSet(failures)
  <2>1. IsFiniteSet(s.turnFailures)
    BY Zenon DEF Sound, Few
  <2>2. IsFiniteSet(s.turnFailures \cup {e.turn})
    BY <2>1, FS_AddElement
  <2>3. QED
    BY <2>1, <2>2
<1> HIDE DEF items, decisions, failures, active
<1>8. /\ r.items = items /\ r.activeTurnId = active /\ r.turnFailures = failures
      /\ r.decisions = decisions
  BY <1>1 DEF Whole
<1>9. IsSequence(items) /\ AllGenuine(items)
  BY <1>2, <1>8, TurnEndReduced, Zenon DEF Reduces, Changes
<1>10. Keyed(items)
  <2>1. \A i \in DOMAIN s.items : items[i].turn = s.items[i].turn /\ items[i].id = s.items[i].id /\ items[i].role = s.items[i].role
    BY <1>3, <1>4, Zenon
  <2>2. QED
    BY <1>2, <1>4, <1>9, <2>1, KeyedSame
<1>11. QED
  BY <1>5, <1>6, <1>7, <1>8, <1>10, Zenon DEF Sound, Few

(* What an event names: a turn of the stream, and an item by its role.     *)
LEMMA EventNames ==
  ASSUME Sound(stream), NEW e \in Events
  PROVE  /\ e.turn \in Turns \cup {None}
         /\ e.kind \in ItemKinds => e.turn \in Turns /\ (e.role = "user" <=> e.item = "user")
<1> DEFINE U == {UserItem(t) : t \in {t \in Turns : stream.activeTurnId = None /\ \A i \in DOMAIN stream.items : stream.items[i].turn # t}}
           R == {Runs(t) : t \in Current}
           D == {ItemDelta(t, i, st) : t \in Current, i \in Items \ {"user"}, st \in {None, "completed"}}
           T == {TurnEnd(t, st) : t \in Current, st \in {"failed", "cancelled"}}
           I == {Input(kind, t, q) : kind \in {"input.request", "input.resolved"}, t \in Current, q \in Requests}
<1>1. e \in U \cup R \cup {Disconnected} \cup D \cup T \cup I
  BY SMT DEF Events
<1>2. Current \subseteq Turns
  <2>1. stream.items # <<>> => stream.items[Len(stream.items)].turn \in Turns
    <3>1. SUFFICES ASSUME stream.items # <<>> PROVE stream.items[Len(stream.items)].turn \in Turns
      OBVIOUS
    <3>2. PICK S : stream.items \in Seq(S)
      BY Zenon DEF Sound, Keyed, IsSequence
    <3>3. Len(stream.items) \in DOMAIN stream.items
      BY <3>1, <3>2
    <3>4. QED
      BY <3>3, Zenon DEF Sound, Keyed
  <2>2. stream.activeTurnId \in Turns \cup {None}
    BY Zenon DEF Sound
  <2>3. QED
    BY <2>1, <2>2 DEF Current
<1>3. CASE e \in U
  <2>1. PICK t \in Turns : e = UserItem(t)
    BY <1>3
  <2>2. e.turn = t /\ e.role = "user" /\ e.item = "user"
    BY <2>1 DEF Event, UserItem
  <2>3. QED
    BY <2>2, Zenon
<1>4. CASE e \in R
  <2>1. PICK t \in Turns : e = Runs(t)
    BY <1>2, <1>4
  <2>2. e.kind = "session.state" /\ e.turn = t
    BY <2>1 DEF Event, Runs
  <2>3. QED
    BY <2>2 DEF ItemKinds
<1>5. CASE e \in {Disconnected}
  <2>1. e = Disconnected
    BY <1>5
  <2>2. e.kind = "session.state" /\ e.turn = None
    BY <2>1 DEF Event, Disconnected
  <2>3. QED
    BY <2>2 DEF ItemKinds
<1>6. CASE e \in D
  <2>1. PICK t \in Current, i \in Items \ {"user"}, st \in {None, "completed"} : e = ItemDelta(t, i, st)
    BY <1>6
  <2>2. e.turn = t /\ e.role = RoleOf[i] /\ e.item = i
    BY <2>1 DEF Event, ItemDelta
  <2>3. RoleOf[i] # "user" /\ i # "user" /\ t \in Turns
    BY <1>2, PresentationAssumption, Zenon
  <2>4. QED
    BY <2>2, <2>3, Zenon
<1>7. CASE e \in T
  <2>1. PICK t \in Turns, st \in {"failed", "cancelled"} : e = TurnEnd(t, st)
    BY <1>2, <1>7
  <2>2. e.kind = "turn.end" /\ e.turn = t
    BY <2>1 DEF Event, TurnEnd
  <2>3. QED
    BY <2>2 DEF ItemKinds
<1>8. CASE e \in I
  <2>1. PICK kind \in {"input.request", "input.resolved"}, t \in Turns, q \in Requests : e = Input(kind, t, q)
    BY <1>2, <1>8
  <2>2. e.kind \in {"input.request", "input.resolved"} /\ e.turn = t
    BY <2>1 DEF Event, Input
  <2>3. QED
    BY <2>2 DEF ItemKinds
<1> HIDE DEF U, R, D, T, I
<1>9. QED
  BY <1>1, <1>3, <1>4, <1>5, <1>6, <1>7, <1>8, Zenon

LEMMA EventSound ==
  ASSUME NEW r, Whole(stream), Sound(stream), NEW e \in Events, r = reduceEvent(stream, e), r.ok
  PROVE  Sound(r)
<1> DEFINE s == stream
           next == CASE e.kind \in ItemKinds -> reduceItem(s, e)
                     [] e.kind \in InputKinds -> reduceInput(s, e)
                     [] e.kind = "session.state" -> reduceState(s, e)
                     [] e.kind = "turn.end" -> reduceTurnEnd(s, e)
                     [] e.kind = "session.runtime" ->
                          [s EXCEPT !.pending = <<>>, !.decisions = expireDecisions(@), !.activeTurnId = None]
                     [] e.kind = "prompt.queue" ->
                          [s EXCEPT !.queue = e.queue, !.ok = s.queue = None \/ e.queue.revision > s.queue.revision]
                     [] e.kind = "session.metadata" ->
                          [s EXCEPT !.metadata = e.metadata, !.ok = s.metadata = None \/ e.metadata > s.metadata]
                     [] e.kind = "session.identity" ->
                          [s EXCEPT !.native = e.native, !.ok = s.native \in {None, e.native}]
                     [] e.kind = "notice" -> s
           good == s.ok /\ decodeEvent(e)
           bad == [s EXCEPT !.ok = FALSE]
           done == [next EXCEPT !.cursor = @ + 1]
<1>1. r = IF good THEN done ELSE bad
  BY Zenon DEF reduceEvent
<1>2. good
  <2>1. ~ bad.ok
    <3>1. s = [cursor |-> s.cursor, worker |-> s.worker, activeTurnId |-> s.activeTurnId, items |-> s.items,
            pending |-> s.pending, decisions |-> s.decisions, queue |-> s.queue, metadata |-> s.metadata,
            native |-> s.native, lastTurnStatus |-> s.lastTurnStatus, turnFailures |-> s.turnFailures, ok |-> s.ok]
      BY Zenon DEF Whole
    <3>2. QED
      BY <3>1
  <2> HIDE DEF good, bad, done
  <2>2. QED
    BY <1>1, <2>1, Zenon
<1>3. r = done
  BY <1>1, <1>2, Zenon
<1>4. /\ e.kind \in {"item.snapshot", "item.delta", "session.state", "turn.end", "input.request", "input.resolved"}
      /\ e.kind \in ItemKinds => e.role \in Roles /\ (e.role = "activity" => e.item \notin WithImages)
      /\ e.turn \in Turns \cup {None}
      /\ e.kind \in ItemKinds => e.turn \in Turns /\ (e.role = "user" <=> e.item = "user")
  BY EventFacts, EventNames
<1>5. /\ e.kind \in {"item.snapshot", "item.delta"} => next = reduceItem(s, e)
      /\ e.kind \in {"input.request", "input.resolved"} => next = reduceInput(s, e)
      /\ e.kind = "session.state" => next = reduceState(s, e)
      /\ e.kind = "turn.end" => next = reduceTurnEnd(s, e)
  BY DEF ItemKinds, InputKinds
<1> HIDE DEF next, good, bad
<1>6. Sound(next)
  <2>1. CASE e.kind \in {"item.snapshot", "item.delta"}
    <3>1. /\ e.role \in Roles /\ (e.role = "activity" => e.item \notin WithImages)
          /\ e.turn \in Turns /\ (e.role = "user" <=> e.item = "user")
      BY <1>4, <2>1 DEF ItemKinds
    <3>2. QED
      BY <1>5, <2>1, <3>1, ItemSound
  <2>2. CASE e.kind \in {"input.request", "input.resolved"}
    BY <1>5, <2>2, InputSound
  <2>3. CASE e.kind = "session.state"
    BY <1>4, <1>5, <2>3, StateSound
  <2>4. CASE e.kind = "turn.end"
    BY <1>5, <2>4, TurnEndSound
  <2>5. QED
    BY <1>4, <2>1, <2>2, <2>3, <2>4
<1>7. /\ r.items = next.items /\ r.activeTurnId = next.activeTurnId
      /\ r.decisions = next.decisions /\ r.turnFailures = next.turnFailures
  <2>1. \E cursor : r = [next EXCEPT !.cursor = cursor]
    BY <1>3, Zenon
  <2>2. PICK cursor : r = [next EXCEPT !.cursor = cursor]
    BY <2>1, Zenon
  <2>3. QED
    BY <2>2
<1>8. QED
  BY <1>6, <1>7, Zenon DEF Sound, Few

(* The items of the last turn have the keys they had.                      *)
LEMMA SuffixKeyed ==
  ASSUME NEW q, Keyed(q), NEW first \in 1 .. Len(q)
  PROVE  Keyed(SubSeq(q, first, Len(q)))
<1> DEFINE n == Len(q)
           rest == SubSeq(q, first, n)
           size == n - first + 1
<1>1. IsSequence(q) /\ AllGenuine(q)
  BY Zenon DEF Keyed
<1>2. IsSequence(rest) /\ AllGenuine(rest)
  BY <1>1, Suffix
<1>3. PICK S : q \in Seq(S)
  BY <1>1, Zenon DEF IsSequence
<1>4. n \in Nat /\ DOMAIN q = 1 .. n /\ \A i \in 1 .. n : q[i] \in S
  BY <1>3
<1>5. first \in 1 .. n
  OBVIOUS
<1> HIDE DEF n
<1>6. first \in Int /\ n \in Int /\ (IF first <= n THEN size ELSE 0) = size /\ first .. n \subseteq 1 .. n /\ size \in Nat
  BY <1>4, <1>5
<1>7. \A i \in first .. n : q[i] \in S
  BY <1>4, <1>6, Zenon
<1>8. Len(rest) = size /\ \A i \in 1 .. size : rest[i] = q[first + i - 1]
  BY <1>6, <1>7
<1>9. \A i \in 1 .. size : first + i - 1 \in 1 .. n
  BY <1>4, <1>5
<1>10. \A i, j \in 1 .. size : first + i - 1 = first + j - 1 => i = j
  BY <1>6
<1> HIDE DEF rest, size
<1>11. DOMAIN rest = 1 .. size
  BY <1>2, <1>8, SequenceFacts
<1>12. \A i \in DOMAIN rest : rest[i].turn \in Turns /\ (rest[i].role = "user" <=> rest[i].id = "user")
  <2> TAKE i \in DOMAIN rest
  <2>1. rest[i] = q[first + i - 1] /\ first + i - 1 \in DOMAIN q
    BY <1>4, <1>8, <1>9, <1>11, Zenon
  <2>2. QED
    BY <2>1, Zenon DEF Keyed
<1>13. \A i, j \in DOMAIN rest : rest[i].turn = rest[j].turn /\ rest[i].id = rest[j].id => i = j
  <2> SUFFICES ASSUME NEW i \in DOMAIN rest, NEW j \in DOMAIN rest, rest[i].turn = rest[j].turn, rest[i].id = rest[j].id
               PROVE  i = j
    OBVIOUS
  <2>1. rest[i] = q[first + i - 1] /\ first + i - 1 \in DOMAIN q
    BY <1>4, <1>8, <1>9, <1>11, Zenon
  <2>2. rest[j] = q[first + j - 1] /\ first + j - 1 \in DOMAIN q
    BY <1>4, <1>8, <1>9, <1>11, Zenon
  <2>3. first + i - 1 = first + j - 1
    BY <2>1, <2>2, Zenon DEF Keyed
  <2>4. QED
    BY <1>10, <1>11, <2>3, Zenon
<1>14. QED
  BY <1>2, <1>12, <1>13, Zenon DEF Keyed, rest, n

LEMMA ReseedSound ==
  ASSUME NEW s, Whole(s), Sound(s), s.items # <<>>,
         NEW first, first = CHOOSE i \in {j \in DOMAIN s.items : s.items[j].turn = s.items[Len(s.items)].turn} :
                              \A k \in {j \in DOMAIN s.items : s.items[j].turn = s.items[Len(s.items)].turn} : i <= k,
         NEW r, r = [s EXCEPT !.items = SubSeq(@, first, Len(@))]
  PROVE  Sound(r)
<1> DEFINE q == s.items
           last == {i \in DOMAIN q : q[i].turn = q[Len(q)].turn}
           rest == SubSeq(q, first, Len(q))
<1>1. Keyed(q) /\ IsSequence(q)
  BY Zenon DEF Sound, Keyed
<1>2. PICK S : q \in Seq(S)
  BY <1>1, Zenon DEF IsSequence
<1>3. Len(q) \in Nat /\ Len(q) # 0 /\ DOMAIN q = 1 .. Len(q)
  BY <1>2
<1>4. last # {} /\ last \subseteq Nat /\ last \subseteq DOMAIN q
  <2>1. Len(q) \in last
    BY <1>3
  <2>2. QED
    BY <1>3, <2>1
<1>5. first \in last
  <2>1. \E n \in last : \A m \in last : n <= m
    <3> HIDE DEF last
    <3>1. QED
      BY <1>4, LeastNumber
  <2>2. first = CHOOSE i \in last : \A k \in last : i <= k
    OBVIOUS
  <2> HIDE DEF last
  <2>3. QED
    BY <2>1, <2>2
<1>6. first \in 1 .. Len(q)
  BY <1>3, <1>4, <1>5, Zenon
<1>7. Keyed(rest)
  <2> HIDE DEF last, q
  <2>1. QED
    BY <1>1, <1>6, SuffixKeyed
<1> HIDE DEF rest
<1>8. r = [s EXCEPT !.items = rest]
  BY DEF rest, q
<1>9. /\ r.items = rest /\ r.activeTurnId = s.activeTurnId
      /\ r.decisions = s.decisions /\ r.turnFailures = s.turnFailures
  BY <1>8 DEF Whole
<1>10. QED
  BY <1>7, <1>9, Zenon DEF Sound, Few

---------------------------------------------------------------------------
(* The page *)

(* Whatever state and outbox a page shows or keeps, its rows have keys that
   tell them apart, and what is on screen was merged from them.            *)
Steady ==
    /\ Sound(stream)
    /\ retained # None => Sound(retained.stream) /\ Outbox(retained.outbox)
    /\ shown # None =>
          /\ Sound(shown.view.stream) /\ Outbox(shown.view.outbox)
          /\ shown.items = mergeTimelineItems(shown.native, Additional(shown.view.session, shown.view.stream, shown.view.outbox))

LEMMA EmptySound == Sound(emptyStream)
<1>1. /\ emptyStream.items = <<>> /\ emptyStream.activeTurnId = None
      /\ emptyStream.decisions = <<>> /\ emptyStream.turnFailures = {}
  BY DEF emptyStream
<1>2. DOMAIN emptyStream.items = {}
  BY <1>1
<1>3. Keyed(emptyStream.items)
  <2>1. IsSequence(emptyStream.items) /\ AllGenuine(emptyStream.items)
    BY EmptyStream, Zenon DEF Whole
  <2>2. QED
    BY <1>2, <2>1, Zenon DEF Keyed
<1>4. DOMAIN emptyStream.decisions = {}
  BY <1>1
<1>5. Few(emptyStream)
  BY <1>1, <1>4, FS_EmptySet, Zenon DEF Few
<1>6. QED
  BY <1>1, <1>3, <1>5, Zenon DEF Sound

LEMMA EmptyOutbox == Outbox(<<>>)
  BY DEF Outbox

LEMMA InitSteady == Init => Steady
<1> SUFFICES ASSUME Init PROVE Steady
  OBVIOUS
<1>1. stream = emptyStream /\ retained = None /\ shown = None
  BY DEF Init
<1>2. QED
  BY <1>1, EmptySound, Zenon DEF Steady

(* A step that renders nothing.                                            *)
LEMMA SteadyUnrendered ==
  ASSUME Steady, Sound(stream'), retained' = retained, shown' = shown
  PROVE  Steady'
<1>1. Sound(stream)'
  OBVIOUS
<1>2. QED
  BY <1>1 DEF Steady

(* A render of the state of now, of the one kept or of none.               *)
LEMMA RenderSteady ==
  ASSUME Steady, NEW active \in BOOLEAN, NEW locale, NEW outbox \in Outboxes, Render(active, locale, outbox)
  PROVE  Steady'
<1> DEFINE mine == retained # None /\ (retained # None => retained.session = session)
           now == [session |-> session, stream |-> stream, vers |-> vers, array |-> array, pendingVer |-> pendingVer,
                   locale |-> locale, outbox |-> outbox]
           empty == [now EXCEPT !.stream = emptyStream, !.vers = <<>>, !.array = [id |-> 0, previous |-> None, indices |-> {}],
                                !.pendingVer = 0, !.outbox = <<>>]
           view == IF active THEN now ELSE IF mine THEN retained ELSE empty
           memo == IF projector.session = view.session THEN projector ELSE [session |-> view.session, cache |-> newProjector]
           cache == nativeConversationModel(memo.cache, view, view.locale)
<1>1. retained' = (IF active \/ mine THEN view ELSE None) /\ shown' = Rows(cache, view) /\ UNCHANGED data
  BY Zenon DEF Render
<1>2. stream' = stream
  BY <1>1 DEF data
<1>3. /\ Sound(stream)
      /\ retained # None => Sound(retained.stream) /\ Outbox(retained.outbox)
  BY Zenon DEF Steady
<1>4. Outbox(outbox)
  BY PresentationAssumption, Zenon DEF Outbox
<1>5. now.stream = stream /\ now.outbox = outbox /\ empty.stream = emptyStream /\ empty.outbox = <<>>
  OBVIOUS
<1> HIDE DEF now, empty
<1>6. Sound(view.stream) /\ Outbox(view.outbox)
  <2>1. CASE active
    BY <1>3, <1>4, <1>5, <2>1, Zenon
  <2>2. CASE ~ active /\ mine
    BY <1>3, <2>2, Zenon
  <2>3. CASE ~ active /\ ~ mine
    BY <1>5, <2>3, EmptySound, EmptyOutbox, Zenon
  <2>4. QED
    BY <2>1, <2>2, <2>3
<1> HIDE DEF view, cache
<1>7. /\ shown'.view = view
      /\ shown'.items = mergeTimelineItems(shown'.native, Additional(view.session, view.stream, view.outbox))
  BY <1>1 DEF Rows, Additional
<1>8. retained' # None => Sound(retained'.stream) /\ Outbox(retained'.outbox)
  BY <1>1, <1>6, Zenon
<1>9. Sound(shown'.view.stream) /\ Outbox(shown'.view.outbox)
  BY <1>6, <1>7, Zenon
<1>10. shown'.items = mergeTimelineItems(shown'.native, Additional(shown'.view.session, shown'.view.stream, shown'.view.outbox))
  BY <1>7, Zenon
<1>11. QED
  BY <1>2, <1>3, <1>8, <1>9, <1>10, Zenon DEF Steady

LEMMA NextSteady ==
  ASSUME IInv, Steady, [Next]_vars
  PROVE  Steady'
<1>1. Whole(stream)
  BY Zenon DEF IInv, Known
<1>2. Sound(stream)
  BY Zenon DEF Steady
<1>3. CASE \E e \in Events : Receive(e)
  <2>1. PICK e \in Events : Receive(e)
    BY <1>3, Zenon
  <2> DEFINE next == reduceEvent(stream, e)
  <2>2. next.ok /\ stream' = next /\ retained' = retained /\ shown' = shown
    BY <2>1, Zenon DEF Receive
  <2>3. Sound(next)
    BY <1>1, <1>2, <2>2, EventSound
  <2>4. QED
    BY <2>2, <2>3, SteadyUnrendered, Zenon
<1>4. CASE Reseed
  <2> DEFINE first == CHOOSE i \in {j \in DOMAIN stream.items : stream.items[j].turn = stream.items[Len(stream.items)].turn} :
                        \A k \in {j \in DOMAIN stream.items : stream.items[j].turn = stream.items[Len(stream.items)].turn} : i <= k
             new == [stream EXCEPT !.items = SubSeq(@, first, Len(@))]
  <2>1. stream.items # <<>> /\ Install(session, new)
    BY <1>4, Zenon DEF Reseed
  <2>2. Sound(new)
    BY <1>1, <1>2, <2>1, ReseedSound
  <2> HIDE DEF new
  <2>3. stream' = new /\ retained' = retained /\ shown' = shown
    BY <2>1, Zenon DEF Install
  <2>4. QED
    BY <2>2, <2>3, SteadyUnrendered, Zenon
<1>5. CASE \E s \in Sessions : Switch(s)
  <2>1. stream' = emptyStream /\ retained' = retained /\ shown' = shown
    BY <1>5, Zenon DEF Switch, Install
  <2>2. QED
    BY <2>1, EmptySound, SteadyUnrendered, Zenon
<1>6. CASE \E active \in BOOLEAN, locale \in Locales, outbox \in Outboxes : Render(active, locale, outbox)
  <2>1. PICK active \in BOOLEAN, locale \in Locales, outbox \in Outboxes : Render(active, locale, outbox)
    BY <1>6, Zenon
  <2>2. QED
    BY <2>1, RenderSteady
<1>7. CASE UNCHANGED vars
  <2>1. stream' = stream /\ retained' = retained /\ shown' = shown
    BY <1>7 DEF vars
  <2>2. QED
    BY <1>2, <2>1, SteadyUnrendered, Zenon
<1>8. QED
  BY <1>3, <1>4, <1>5, <1>6, <1>7, Zenon DEF Next

(* A message of the outbox has its row, its own or that of the journal.    *)
LEMMA MessageShown ==
  ASSUME NEW sessionId, NEW s, Keyed(s.items), Few(s), NEW sent, Outbox(sent), NEW locale,
         NEW k \in DOMAIN sent, sent[k].session \in {None, sessionId}
  PROVE  HasId(JournalRows(s, locale), RowId(sent[k])) \/ HasId(Additional(sessionId, s, sent), RowId(sent[k]))
<1> DEFINE received == {s.items[i].turn : i \in {i \in DOMAIN s.items : s.items[i].role = "user"}}
<1>1. CASE sent[k].turn \notin received
  <2>1. k \in Open(sessionId, s, sent)
    BY <1>1 DEF Open
  <2>2. QED
    BY <2>1, AdditionalFacts
<1>2. CASE sent[k].turn \in received
  <2>1. PICK i \in DOMAIN s.items : s.items[i].role = "user" /\ sent[k].turn = s.items[i].turn
    BY <1>2
  <2>2. s.items[i].id = "user" /\ s.items[i].turn \in Turns
    BY <2>1, Zenon DEF Keyed
  <2>3. sent[k].turn # None
    BY <2>1, <2>2, PresentationAssumption
  <2>4. RowId(sent[k]) = <<s.items[i].turn, s.items[i].id>>
    BY <2>1, <2>2, <2>3, Zenon DEF RowId
  <2>5. HasId(JournalRows(s, locale), <<s.items[i].turn, s.items[i].id>>)
    BY JournalFacts
  <2>6. QED
    BY <2>4, <2>5, Zenon
<1>3. QED
  BY <1>1, <1>2

(* What the two invariants say of the rows on screen.                      *)
LEMMA SteadyIsWhole ==
  ASSUME Steady, ProjectionIsFresh
  PROVE  TimelineIsWhole
<1>1. CASE shown = None
  BY <1>1, Zenon DEF TimelineIsWhole, EachRowOnce, MergeKeepsOrder
<1>2. CASE shown # None
  <2>1. PICK v, sessionId, s, sent, locale, native, items :
           /\ v = shown.view /\ native = shown.native /\ items = shown.items
           /\ sessionId = v.session /\ s = v.stream /\ sent = v.outbox /\ locale = v.locale
    BY Zenon
  <2> DEFINE rows == Additional(sessionId, s, sent)
  <2>2. Keyed(s.items) /\ Few(s) /\ Outbox(sent) /\ items = mergeTimelineItems(native, rows)
    BY <1>2, <2>1, Zenon DEF Steady, Sound
  <2>3. native = JournalRows(s, locale)
    BY <1>2, <2>1, Zenon DEF ProjectionIsFresh, JournalRows
  <2>4. /\ \A i, j \in DOMAIN items : items[i].id = items[j].id => i = j
        /\ \A id : HasId(native, id) \/ HasId(rows, id) => \E i \in DOMAIN items : items[i].id = id
        /\ InPlace(native, items)
    BY <2>2, <2>3, TimelineFacts
  <2>5. \A id : HasId(rows, id) <=> \/ \E q \in Decided(s) : id = <<"decision", q>>
                                    \/ \E t \in s.turnFailures : id = <<"failure", t>>
                                    \/ \E k \in Open(sessionId, s, sent) : id = RowId(sent[k])
    BY <2>2, AdditionalFacts
  <2>6. \A k \in DOMAIN sent : sent[k].session \in {None, sessionId} =>
           HasId(native, RowId(sent[k])) \/ HasId(rows, RowId(sent[k]))
    BY <2>2, <2>3, MessageShown
  <2> HIDE DEF rows
  <2>7. \A k \in DOMAIN sent : sent[k].session \in {None, sessionId} => \E i \in DOMAIN items : items[i].id = RowId(sent[k])
    BY <2>4, <2>6, Zenon
  <2>8. \A q \in Decided(s) : \E i \in DOMAIN items : items[i].id = <<"decision", q>>
    BY <2>4, <2>5, Zenon
  <2>9. \A t \in s.turnFailures : \E i \in DOMAIN items : items[i].id = <<"failure", t>>
    BY <2>4, <2>5, Zenon
  <2>10. EachRowOnce
    BY <2>1, <2>4, <2>7, <2>8, <2>9, Zenon DEF EachRowOnce
  <2>11. MergeKeepsOrder
    <3>1. InPlace(shown.native, shown.items)
      BY <2>1, <2>4, Zenon
    <3>2. QED
      BY <3>1 DEF InPlace, MergeKeepsOrder
  <2>12. QED
    BY <2>10, <2>11, Zenon DEF TimelineIsWhole
<1>3. QED
  BY <1>1, <1>2

(* The timeline shows everything once and in its place: whatever the outbox, the
   seeds, the events and the clocks, optimisticTimelineItems and
   mergeTimelineItems neither lose nor repeat a message, a decision or a failed
   turn, no two rows share a key, the journal keeps its order, and a dated row
   stands in front of the first row of the journal that is not older.       *)
THEOREM TimelineCorrect == Spec => []TimelineIsWhole
<1>1. Init => IInv /\ Steady
  BY InitKnown, InitSteady
<1>2. IInv /\ Steady /\ [Next]_vars => (IInv /\ Steady)'
  BY NextKnown, NextSteady
<1>3. IInv /\ Steady => TimelineIsWhole
  BY SteadyIsWhole DEF IInv
<1>4. QED
  BY <1>1, <1>2, <1>3, PTL DEF Spec
=============================================================================
