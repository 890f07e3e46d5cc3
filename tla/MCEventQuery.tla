------------------------------ MODULE MCEventQuery ------------------------------
(***************************************************************************)
(* A small instance of EventQuery: two authors, ids of two digits with a   *)
(* shared first digit, events of one second, tags, and deletions by the    *)
(* author, by someone else, of a deletion and of an event not there yet.   *)
(***************************************************************************)
EXTENDS EventQuery, TLC

alice == <<1, 1>>
bob == <<1, 2>>

Ev(id, author, created, kind, tags) ==
  [id |-> id, author |-> author, created |-> created, kind |-> kind, tags |-> tags]

MCEvents == {
  Ev(<<1, 1>>, alice, 1, 1, {<<"p", bob>>, <<"e">>}),
  Ev(<<1, 2>>, bob,   1, 1, {<<"e", <<1, 1>>>>, <<"p", alice>>}),
  Ev(<<2, 1>>, alice, 2, 7, {<<"e", <<1, 2>>>>, <<"e", <<1>>>>}),
  Ev(<<2, 2>>, alice, 2, 5, {<<"e", <<1, 1>>>>, <<"e", <<1, 2>>>>, <<"e", <<2, 2>>>>}),
  Ev(<<3, 1>>, bob,   3, 5, {<<"e", <<1, 1>>>>, <<"e", <<2>>>>}),
  Ev(<<3, 2>>, alice, 0, 5, {<<"e", <<2, 2>>>>, <<"e", <<2, 1>>>>})}

MCTagFields == ("#e" :> "e" @@ "#p" :> "p")

Strings(vs) == [types |-> IF vs = <<>> THEN {"strings", "integers"} ELSE {"strings"}, value |-> vs]
Numbers(vs) == [types |-> IF vs = <<>> THEN {"strings", "integers"} ELSE {"integers"}, value |-> vs]
Integer(v) == [types |-> {"integer"}, value |-> v]
Other == [types |-> {}, value |-> 0]

\* Every field, empty lists, short, complete and too long prefixes, limits
\* below, at and above the bounds, and fields that are dropped.
Filters == {
  ("limit" :> Integer(2)),
  ("limit" :> Integer(0) @@ "kinds" :> Numbers(<<1, 7>>)),
  ("limit" :> Integer(9) @@ "since" :> Integer(1)),
  ("ids" :> Strings(<<<<1>>, <<2, 1>>>>)),
  ("ids" :> Strings(<<<<>>>>) @@ "until" :> Integer(2) @@ "limit" :> Integer(1)),
  ("ids" :> Strings(<<<<1, 2, 1>>, <<3>>>>)),
  ("authors" :> Strings(<<<<1>>>>) @@ "kinds" :> Numbers(<<5>>)),
  ("authors" :> Strings(<<bob>>) @@ "limit" :> Other),
  ("authors" :> Strings(<<>>)),
  ("#e" :> Strings(<<<<1, 1>>, <<1>>>>) @@ "ids" :> Numbers(<<1>>)),
  ("#e" :> Strings(<<<<1, 2>>>>) @@ "#p" :> Strings(<<alice>>)),
  ("#p" :> Strings(<<alice, bob>>) @@ "since" :> Integer(1) @@ "until" :> Integer(1)),
  ("search" :> Strings(<<bob>>) @@ "kinds" :> Numbers(<<>>))}

\* At a bound, and past one.
Bounded == {
  ("kinds" :> Numbers(<<1, 5, 7, 1>>)),
  ("kinds" :> Numbers(<<1, 5, 7, 1>>) @@ "limit" :> Integer(1)),
  ("ids" :> Strings(<<<<1>>, <<>>, <<2>>>>)),
  ("#p" :> Strings(<<alice, <<1, 2, 3, 4>>>>)),
  ("since" :> Integer(-9)), ("until" :> Integer(9))}

MCRequests ==
  {<<>>, <<NoObject>>} \cup {<<f>> : f \in Filters \cup Bounded} \cup (Filters \X Filters)
    \cup {<<NoObject, f>> : f \in Filters} \cup {<<NoObject, f, f>> : f \in Filters}
=============================================================================
