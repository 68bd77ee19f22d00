---------------------------- MODULE MobileRoutes ----------------------------
(* The route package of a mobile session and the engine that answers the    *)
(* game's requests from it (runtimes/gb/src/mobile/mobile_route_engine.c).  *)
(*                                                                          *)
(* A package is a sequence of routes. A route names the line it answers     *)
(* (host, method and path together), the state of the scenario's flags it   *)
(* needs and the flags it sets, predicates on the request's headers and     *)
(* body, how often it may be used, and whether only the same body may be    *)
(* answered again. Header values and bodies are short sequences; a SHA-256  *)
(* is the value it was taken of, so equal digests mean equal values.        *)
(* The module has no state of its own: Mobile holds the engine.             *)
EXTENDS Integers, FiniteSets, SequencesExt

CONSTANTS
    HeaderNames,  \* headers a predicate may name
    Flags,        \* the states a package declares
    MaxUses       \* most a route's max_uses may be (16 in the code)

Unset == <<-1>>         \* no digest, no value

\* REQUEST_HEADER_PREDICATE: a name that is not listed has no predicate ("any").
Header(match, value, max) == [match |-> match, value |-> value, max |-> max]
NoPredicate == Header("any", <<>>, 0)

\* A route without request_body takes every body its discard and sink limits allow.
AnyBody == [min |-> -1, max |-> 0, sha |-> Unset, slices |-> {}]
Body(min, max, sha, slices) == [min |-> min, max |-> max, sha |-> sha, slices |-> slices]

\* What a package's reader can hold of a route.
Routes ==
    [line : STRING,
     needs : [on : SUBSET Flags, off : SUBSET Flags],
     sets : [on : SUBSET Flags, off : SUBSET Flags],
     header : [HeaderNames -> [match : {"any", "absent", "present", "exact", "prefix", "sha"},
                               value : Seq(Nat), max : Nat]],
     body : [min : Int, max : Nat, sha : Seq(Int),
             slices : SUBSET [offset : Nat, data : Seq(Nat)]],
     uses : Nat, replay : BOOLEAN, limit : Nat]

-----------------------------------------------------------------------------
(* Reading a package                                                        *)

\* parse_request_headers: an absent header has no matcher, a value fits its length.
parse_request_headers(r) ==
    \A n \in HeaderNames :
        LET p == r.header[n]
        IN  p.match \in {"exact", "prefix"} => Len(p.value) <= p.max

SliceEnd(s) == s.offset + Len(s.data)

\* parse_request_body: lengths in order, slices inside and apart.
parse_request_body(r) ==
    r.body # AnyBody =>
        /\ r.body.min <= r.body.max
        /\ \A s \in r.body.slices : s.data # <<>> /\ SliceEnd(s) <= r.body.max
        /\ \A s, t \in r.body.slices :
             s # t => SliceEnd(s) <= t.offset \/ SliceEnd(t) <= s.offset

\* load_http: what one route must satisfy by itself.
load_http(r) ==
    /\ parse_request_headers(r)
    /\ parse_request_body(r)
    /\ r.uses \in 1..MaxUses
    /\ r.replay => r.body # AnyBody
    /\ r.body.max <= r.limit

\* Mutant of header_predicates_disjoint: a prefix longer than the value is thought apart.
PrefixesApart(a, b) ==
    /\ a.match # "any" /\ b.match # "any"
    /\ \/ (a.match = "absent") # (b.match = "absent")
       \/ a.match = "prefix" /\ b.match = "prefix" /\ a.value # b.value

\* header_predicates_disjoint: no value satisfies both predicates of one header.
header_predicates_disjoint(a, b) ==
    /\ a.match # "any" /\ b.match # "any"
    /\ \/ (a.match = "absent") # (b.match = "absent")
       \/ /\ a.match # "absent" /\ b.match # "absent"
          /\ \/ a.match = "exact" /\ Len(a.value) > b.max
             \/ b.match = "exact" /\ Len(b.value) > a.max
             \/ /\ {a.match, b.match} \subseteq {"exact", "sha"}
                /\ a.value # b.value
             \/ /\ a.match = "prefix" /\ b.match = "prefix"
                /\ ~IsPrefix(a.value, b.value) /\ ~IsPrefix(b.value, a.value)
             \/ a.match = "exact" /\ b.match = "prefix" /\ ~IsPrefix(b.value, a.value)
             \/ a.match = "prefix" /\ b.match = "exact" /\ ~IsPrefix(a.value, b.value)

\* Two fixed slices differ at a place both cover.
SlicesDiffer(s, t) ==
    \E i \in s.offset .. SliceEnd(s) - 1 :
        /\ t.offset <= i /\ i < SliceEnd(t)
        /\ s.data[i - s.offset + 1] # t.data[i - t.offset + 1]

\* Mutant of body_predicates_disjoint: slices are compared by where they start only.
SlicesApart(a, b) ==
    /\ a # AnyBody /\ b # AnyBody
    /\ \/ a.max < b.min \/ b.max < a.min
       \/ a.sha # Unset /\ b.sha # Unset /\ a.sha # b.sha
       \/ \E s \in a.slices, t \in b.slices : s.data # t.data

\* body_predicates_disjoint: no body satisfies both.
body_predicates_disjoint(a, b) ==
    /\ a # AnyBody /\ b # AnyBody
    /\ \/ a.max < b.min \/ b.max < a.min
       \/ a.sha # Unset /\ b.sha # Unset /\ a.sha # b.sha
       \/ \E s \in a.slices, t \in b.slices : SlicesDiffer(s, t)

\* routes_overlap: one line, one state, and nothing that tells their requests apart.
routes_overlap(a, b) ==
    /\ a.line = b.line
    /\ a.needs = b.needs
    /\ \A n \in HeaderNames : ~header_predicates_disjoint(a.header[n], b.header[n])
    /\ ~body_predicates_disjoint(a.body, b.body)

\* The flags of a state satisfy requires_true and requires_false.
InState(r, state) == r.needs.on \subseteq state /\ r.needs.off \cap state = {}

After(r, state) == (state \cup r.sets.on) \ r.sets.off

\* The states the routes lead to from the first, one more route in each round.
Reached(package, first) ==
    LET in[n \in 0..Len(package)] ==
            IF n = 0 THEN {first}
            ELSE in[n - 1] \cup UNION {{After(r, s) : s \in {t \in in[n - 1] : InState(r, t)}} :
                                        r \in ToSet(package)}
    IN  in[Len(package)]

\* validate_schema_two_routes: whole states, no two routes alike, every route in reach.
validate_schema_two_routes(package, first) ==
    /\ \A i \in DOMAIN package : package[i].needs.on \cup package[i].needs.off = Flags
    /\ \A i, j \in DOMAIN package : i < j => ~routes_overlap(package[i], package[j])
    /\ \A i \in DOMAIN package : \E s \in Reached(package, first) : InState(package[i], s)

\* integral_gb_runtime_mobile_route_engine_new refuses every other package.
Accepted(package, first) ==
    /\ package # <<>>
    /\ \A i \in DOMAIN package : load_http(package[i])
    /\ validate_schema_two_routes(package, first)

-----------------------------------------------------------------------------
(* Answering a request                                                      *)

NoHeader == <<-2>>   \* the request does not carry the header

\* header_predicates_match, for one header.
HeaderMatches(p, value) ==
    CASE p.match = "any" -> TRUE
      [] p.match = "absent" -> value = NoHeader
      [] OTHER -> /\ value # NoHeader
                  /\ Len(value) <= p.max
                  /\ p.match \in {"exact", "sha"} => value = p.value
                  /\ p.match = "prefix" => IsPrefix(p.value, value)

\* body_predicate_matches.
BodyMatches(p, body) ==
    p # AnyBody =>
        /\ Len(body) >= p.min /\ Len(body) <= p.max
        /\ p.sha # Unset => body = p.sha
        /\ \A s \in p.slices :
             SliceEnd(s) <= Len(body) /\ SubSeq(body, s.offset + 1, SliceEnd(s)) = s.data

\* An engine: the flags, how often each route was used, and the body it answers again.
Engine(package, first) ==
    [package |-> package, flags |-> first,
     uses |-> [i \in DOMAIN package |-> 0], digest |-> [i \in DOMAIN package |-> Unset]]

\* Mutant of Matches: the state of the scenario is not looked at.
MatchesAnyState(e, q) ==
    {i \in DOMAIN e.package :
        LET r == e.package[i]
        IN  /\ r.line = q.line
            /\ e.uses[i] < r.uses
            /\ \A n \in HeaderNames : HeaderMatches(r.header[n], q.header[n])
            /\ BodyMatches(r.body, q.body)
            /\ r.replay /\ e.digest[i] # Unset => e.digest[i] = q.body}

\* prepare_http: the routes that match a whole request in the engine's state.
Matches(e, q) ==
    {i \in DOMAIN e.package :
        LET r == e.package[i]
        IN  /\ r.line = q.line
            /\ InState(r, e.flags)
            /\ e.uses[i] < r.uses
            /\ \A n \in HeaderNames : HeaderMatches(r.header[n], q.header[n])
            /\ BodyMatches(r.body, q.body)
            /\ r.replay /\ e.digest[i] # Unset => e.digest[i] = q.body}

\* One match, and a body no longer than the route discards or sinks.
Answerable(e, q) ==
    /\ Cardinality(Matches(e, q)) = 1
    /\ \A i \in Matches(e, q) : Len(q.body) <= e.package[i].limit

RouteOf(e, q) == CHOOSE i \in Matches(e, q) : TRUE

\* Mutant of Answered: a replay route forgets what it answered.
AnsweredForgets(e, q) ==
    LET i == RouteOf(e, q)
        r == e.package[i]
    IN  [e EXCEPT !.flags = After(r, @), !.uses[i] = @ + 1]

\* The engine after the answer: the flags, the use, the first body of a replay route.
Answered(e, q) ==
    LET i == RouteOf(e, q)
        r == e.package[i]
    IN  [e EXCEPT !.flags = After(r, @), !.uses[i] = @ + 1,
                  !.digest[i] = IF r.replay /\ @ = Unset THEN q.body ELSE @]
=============================================================================
