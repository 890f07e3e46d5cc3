------------------------------- MODULE EventQuery -------------------------------
(***************************************************************************)
(* The tables of the event store and the query that replays them: filters  *)
(* as SQL over events, event_tags and deletions, beside the same filters   *)
(* as live broadcasts evaluate them, on the event itself.  Both take what  *)
(* is left of the filters of a REQ once they are normalized and bounded.   *)
(*                                                                         *)
(* An id, a pubkey and the value of a tag are short sequences of digits,   *)
(* so that prefixes and the order of text mean what they mean in the code. *)
(***************************************************************************)
EXTENDS SequencesExt, Integers

CONSTANTS
  Events,       \* signed events, no two with one id
  Requests,     \* filter lists of REQ messages, as received
  TagFields,    \* the fields "#e", "#p", ... with the tag name each is about
  FullLength,   \* length of a complete id or pubkey (64)
  Highest,      \* the digit above all others (U+10FFFF)
  DefaultLimit, \* limit of a query that names none (500)
  MaxLimit,     \* ceiling of a limit (5000)
  MaxFilters,   \* filters of a REQ (16)
  MaxValues,    \* values of a filter (2000)
  MaxPrefixes,  \* incomplete ids, or authors, of a filter (128)
  MaxText,      \* length of a string (4096)
  MaxInteger,   \* integers are below this and at least its negative (2^63)
  NoObject      \* stands for a filter that is not a JSON object

VARIABLES
  open,       \* a process has the store open
  rows,       \* the events table
  indexed,    \* the table event_tags exists
  index,      \* event_tags: <<name, value, id of the event>>
  deletions   \* deletions: <<id of the target, author of the deletion>>

vars == <<open, rows, indexed, index, deletions>>

Text == Seq(Nat)
Keys == {v \in Text : Len(v) = FullLength /\ \A n \in 1 .. FullLength : v[n] < Highest}

\* What a field of a received filter passes for, it is.
TypesAreTold(raw) ==
  \A field \in DOMAIN raw :
    /\ "strings" \in raw[field].types => raw[field].value \in Seq(Text)
    /\ "integers" \in raw[field].types => raw[field].value \in Seq(Int)
    /\ "integer" \in raw[field].types => raw[field].value \in Int

ASSUME QueryAssumption ==
  /\ IsFiniteSet(Events)
  /\ \A e \in Events :
       /\ e.id \in Keys /\ e.author \in Keys
       /\ e.created \in Nat /\ e.kind \in Nat
       /\ \A d \in Events : d.id = e.id => d = e
  /\ DefaultLimit \in Nat \ {0} /\ MaxLimit \in Nat \ {0}
  /\ {FullLength, Highest, MaxFilters, MaxValues, MaxPrefixes, MaxText, MaxInteger} \subseteq Nat
  /\ DOMAIN TagFields \cap {"ids", "authors", "kinds", "since", "until", "limit"} = {}
  /\ \A req \in Requests : \A i \in DOMAIN req : req[i] # NoObject => TypesAreTold(req[i])

-----------------------------------------------------------------------------
(* Text.                                                                   *)

\* The order of text: at the first difference, or a proper prefix first.
Before(a, b) ==
  \E n \in 0 .. Len(a) :
    /\ n < Len(b)
    /\ SubSeq(a, 1, n) = SubSeq(b, 1, n)
    /\ n = Len(a) \/ a[n + 1] < b[n + 1]

StartsWith(v, p) == Len(p) <= Len(v) /\ SubSeq(v, 1, Len(p)) = p

\* ids and authors in SQL: an exact value, or a range from the prefix up.
InRange(v, prefixes) ==
  \E p \in prefixes :
    IF Len(p) = FullLength THEN v = p
    ELSE ~Before(v, p) /\ Before(v, Append(p, Highest))

-----------------------------------------------------------------------------
(* Normalization.  A field of a received filter has a value and the set of *)
(* types it passes for: "strings", "integers" or, when empty, both for a   *)
(* list, "integer" for a number, none for anything else.                   *)

Lists == {"ids", "authors", "kinds"} \cup DOMAIN TagFields

TypeOf(field) ==
  CASE field \in {"ids", "authors"} \cup DOMAIN TagFields -> "strings"
    [] field = "kinds" -> "integers"
    [] field \in {"since", "until", "limit"} -> "integer"
    [] OTHER -> "unknown"

\* Fields nobody knows and values of another type are dropped.
Clean(raw) ==
  [field \in {g \in DOMAIN raw : TypeOf(g) \in raw[g].types} |-> raw[field].value]

\* What is no object is skipped; the others keep their places here.
Normalized(req) == [i \in {j \in DOMAIN req : req[j] # NoObject} |-> Clean(req[i])]

Has(f, field) == field \in DOMAIN f
TagsAsked(f) == DOMAIN f \cap DOMAIN TagFields

ValueCount(f) == MapThenSumSet(LAMBDA g : IF g \in Lists THEN Len(f[g]) ELSE 1, DOMAIN f)
IntegersOf(f) ==
  {f[field] : field \in DOMAIN f \ Lists} \cup (IF Has(f, "kinds") THEN Range(f.kinds) ELSE {})
StringsOf(f) == UNION {Range(f[field]) : field \in (DOMAIN f \cap Lists) \ {"kinds"}}
PrefixCount(vs) == Cardinality({n \in DOMAIN vs : Len(vs[n]) # FullLength})

\* validate_filter_bounds, of one normalized filter.
InBounds(f) ==
  /\ ValueCount(f) <= MaxValues
  /\ \A n \in IntegersOf(f) : -MaxInteger <= n /\ n < MaxInteger
  /\ \A v \in StringsOf(f) : Len(v) <= MaxText
  /\ \A field \in {"ids", "authors"} \cap DOMAIN f : PrefixCount(f[field]) <= MaxPrefixes

\* normalize_filters does not raise.
Accepted(req) ==
  /\ Len(req) <= MaxFilters
  /\ \A i \in DOMAIN Normalized(req) : InBounds(Normalized(req)[i])

-----------------------------------------------------------------------------
(* A normalized filter.                                                    *)

\* matches_filter: what a live broadcast asks of an event.
Matches(e, f) ==
  /\ Has(f, "ids") => \E p \in Range(f.ids) : StartsWith(e.id, p)
  /\ Has(f, "authors") => \E p \in Range(f.authors) : StartsWith(e.author, p)
  /\ Has(f, "kinds") => e.kind \in Range(f.kinds)
  /\ Has(f, "since") => e.created >= f.since
  /\ Has(f, "until") => e.created <= f.until
  /\ \A q \in TagsAsked(f) :
       \E t \in e.tags : Len(t) >= 2 /\ t[1] = TagFields[q] /\ t[2] \in Range(f[q])

M_Selected(e, f) ==
  /\ ~ \E d \in deletions : d[1] = e.id
  /\ Has(f, "ids") => InRange(e.id, Range(f.ids))
  /\ Has(f, "authors") => InRange(e.author, Range(f.authors))
  /\ Has(f, "kinds") => e.kind \in Range(f.kinds)
  /\ Has(f, "since") => e.created >= f.since
  /\ Has(f, "until") => e.created <= f.until
  /\ \A q \in TagsAsked(f) : \E v \in Range(f[q]) : <<TagFields[q], v, e.id>> \in index

\* The WHERE clauses of one filter.
Selected(e, f) ==
  /\ <<e.id, e.author>> \notin deletions
  /\ Has(f, "ids") => InRange(e.id, Range(f.ids))
  /\ Has(f, "authors") => InRange(e.author, Range(f.authors))
  /\ Has(f, "kinds") => e.kind \in Range(f.kinds)
  /\ Has(f, "since") => e.created >= f.since
  /\ Has(f, "until") => e.created <= f.until
  /\ \A q \in TagsAsked(f) : \E v \in Range(f[q]) : <<TagFields[q], v, e.id>> \in index

\* ORDER BY created_at DESC, id DESC LIMIT n.
Newer(d, e) == d.created > e.created \/ (d.created = e.created /\ Before(e.id, d.id))
Newest(S, n) == {e \in S : Cardinality({d \in S : Newer(d, e)}) < n}

\* filter_limit: the largest limit any filter asks for, within bounds.
Limit(fs) ==
  LET asked == {fs[i].limit : i \in {j \in DOMAIN fs : Has(fs[j], "limit")}}
      largest == CHOOSE n \in asked : \A a \in asked : a <= n
  IN IF asked = {} THEN DefaultLimit
     ELSE IF largest > MaxLimit THEN MaxLimit ELSE IF largest < 1 THEN 1 ELSE largest

\* query: one statement for each filter, merged by id and cut again.
Answer(fs) ==
  Newest(UNION {Newest({e \in rows : Selected(e, fs[i])}, Limit(fs)) : i \in DOMAIN fs}, Limit(fs))

-----------------------------------------------------------------------------
(* save and the migration.                                                 *)

TagRows(e) == {<<t[1], t[2], e.id>> : t \in {t \in e.tags : Len(t) >= 2}}

Tombstones(e) ==
  IF e.kind # 5 THEN {}
  ELSE {<<t[2], e.author>> :
          t \in {t \in e.tags : Len(t) >= 2 /\ t[1] = "e" /\ Len(t[2]) = FullLength /\ t[2] # e.id}}

\* One transaction; an event already stored is not indexed again.
Save(e) ==
  /\ open
  /\ rows' = rows \cup {e}
  /\ index' = IF e \in rows THEN index ELSE index \cup TagRows(e)
  /\ deletions' = deletions \cup Tombstones(e)
  /\ UNCHANGED <<open, indexed>>

M_Open ==
  /\ ~open
  /\ open' = TRUE
  /\ indexed' = TRUE
  /\ UNCHANGED <<rows, index, deletions>>

\* The first process of this release indexes what earlier ones stored, in
\* one transaction with the creation of the table.
Open ==
  /\ ~open
  /\ open' = TRUE
  /\ indexed' = TRUE
  /\ index' = IF indexed THEN index ELSE UNION {TagRows(e) : e \in rows}
  /\ UNCHANGED <<rows, deletions>>

Close ==
  /\ open
  /\ open' = FALSE
  /\ UNCHANGED <<rows, indexed, index, deletions>>

\* A new database, or one of a release without event_tags.
Init ==
  /\ open = FALSE
  /\ rows \in SUBSET Events
  /\ indexed = FALSE /\ index = {}
  /\ deletions = UNION {Tombstones(e) : e \in rows}

Next == Open \/ Close \/ \E e \in Events : Save(e)

Spec == Init /\ [][Next]_vars

-----------------------------------------------------------------------------
(* Properties.                                                             *)

\* An author hides events of its own, and no deletion hides itself.
Visible(e) ==
  ~ \E d \in rows :
      /\ d.kind = 5 /\ d.author = e.author /\ d # e
      /\ \E t \in d.tags : Len(t) >= 2 /\ t[1] = "e" /\ t[2] = e.id

Expected(fs) ==
  Newest({e \in rows : Visible(e) /\ \E i \in DOMAIN fs : Matches(e, fs[i])}, Limit(fs))

(***************************************************************************)
(* Replay and live delivery judge an event alike: while the store is open, *)
(* whichever release stored an event and in whatever order events and      *)
(* deletions came, EventStore.query selects it for a filter exactly when   *)
(* it is not deleted and matches_filter accepts it, although the one asks  *)
(* three tables and compares text by ranges and the other looks at the     *)
(* event.                                                                  *)
(***************************************************************************)
ReplayIsLive ==
  open => \A req \in Requests : \A i \in DOMAIN Normalized(req) : \A e \in rows :
            Selected(e, Normalized(req)[i]) <=> Visible(e) /\ Matches(e, Normalized(req)[i])

(***************************************************************************)
(* A replay and a live broadcast agree: whatever was saved in whichever    *)
(* order, before or after the tags were indexed, the events a query        *)
(* returns are the newest Limit of all visible ones that the live matcher  *)
(* accepts for some filter of an accepted REQ, those of one second by      *)
(* their ids, although each filter's rows are cut before they are merged.  *)
(***************************************************************************)
AnswersNewest ==
  open => \A req \in {r \in Requests : Accepted(r)} :
            Answer(Normalized(req)) = Expected(Normalized(req))

=============================================================================
