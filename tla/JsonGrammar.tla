---------------------------- MODULE JsonGrammar -----------------------------
(***************************************************************************)
(* JSON as its grammar has it, of which Json::Reader says that it reads    *)
(* it, with comments between any two tokens: what a document is the text   *)
(* of.  Without comments it is external: the parser of Qt, and of whoever  *)
(* reads the output of ds2-dump.                                           *)
(*                                                                         *)
(* What is read at a position is a set of at most one pair: of what it is, *)
(* and the position behind.                                                *)
(***************************************************************************)
EXTENDS JsonReader

TypeIn(ts, i) == IF i <= Len(ts) THEN ts[i].type ELSE "end"

(* The first token from i on that is no comment.                           *)
Skip(ts, i) ==
    CHOOSE j \in i..(Len(ts) + 1) :
        /\ TypeIn(ts, j) # "comment"
        /\ \A k \in i..(j - 1) : TypeIn(ts, k) = "comment"

(* What comes later wins.                                                  *)
Over(later, f) ==
    [k \in DOMAIN later \cup DOMAIN f |-> IF k \in DOMAIN later THEN later[k] ELSE f[k]]

(* The entries of an array or object, f, at a position behind one: they    *)
(* end, or a comma and others follow.  In P are the entries at every later *)
(* position: of an object, or of an array from its n-th item on.           *)
Closing(kind) == IF kind = "array" THEN "]" ELSE "}"
MoreEntries(P, ts, kind, i, n, f) ==
    LET s == Skip(ts, i)
    IN  IF TypeIn(ts, s) = Closing(kind) THEN {<<f, s + 1>>}
        ELSE IF TypeIn(ts, s) = "," THEN {<<Over(x[1], f), x[2]>> : x \in P[<<kind, s + 1, n>>]}
        ELSE {}

ValueAt(P, ts, i) ==
    LET s == Skip(ts, i)
        next == Skip(ts, s + 1)
    IN  CASE TypeIn(ts, s) \in {"scalar", "string"} -> {<<ts[s].value, s + 1>>}
          [] TypeIn(ts, s) = "[" /\ TypeIn(ts, next) = "]" -> {<<EmptyArray, next + 1>>}
          [] TypeIn(ts, s) = "[" /\ TypeIn(ts, next) # "]" ->
                {<<Array(x[1]), x[2]>> : x \in P[<<"array", s + 1, 0>>]}
          [] TypeIn(ts, s) = "{" /\ TypeIn(ts, next) = "}" -> {<<EmptyObject, next + 1>>}
          [] TypeIn(ts, s) = "{" /\ TypeIn(ts, next) # "}" ->
                {<<Object(x[1]), x[2]>> : x \in P[<<"object", s + 1, 0>>]}
          [] OTHER -> {}

ItemsAt(P, ts, i, n) ==
    UNION {MoreEntries(P, ts, "array", v[2], n + 1, Put(Nothing, n, v[1])) : v \in ValueAt(P, ts, i)}

MembersAt(P, ts, i) ==
    LET s == Skip(ts, i)
        colon == Skip(ts, s + 1)
    IN  IF TypeIn(ts, s) = "string" /\ TypeIn(ts, colon) = ":"
        THEN UNION {MoreEntries(P, ts, "object", v[2], 0, Put(Nothing, ts[s].value.text, v[1])) :
                       v \in ValueAt(P, ts, colon + 1)}
        ELSE {}

EntriesAt(P, ts, p) ==
    IF p[1] = "array" THEN ItemsAt(P, ts, p[2], p[3]) ELSE MembersAt(P, ts, p[2])

Entries(ts) ==
    LET entries[p \in {"array", "object"} \X (1..(Len(ts) + 1)) \X Nat] == EntriesAt(entries, ts, p)
    IN  entries

(* The value a document begins with, comments left out.                    *)
Json(ts) == {v[1] : v \in ValueAt(Entries(ts), ts, 1)}
Standard(ts) == IF \E i \in DOMAIN ts : ts[i].type = "comment" THEN {} ELSE Json(ts)

-----------------------------------------------------------------------------
(* Properties.                                                             *)

(* Comments where the reader allows them: not before a colon, not alone in *)
(* an array, and after a member of an object only before a comma or the    *)
(* closing brace; and no comma before a closing brace after an empty name. *)
ValueEnds == {"scalar", "string", "}", "]"}
PlainComments(ts) ==
    \A i \in 2..Len(ts) : ts[i].type = "comment" =>
        LET before == ts[i - 1].type
            behind == TypeIn(ts, Skip(ts, i))
        IN  /\ ~(before = "string" /\ behind = ":")
            /\ ~(before = "[" /\ behind = "]")
            /\ before \in ValueEnds =>
                  \/ behind \in {",", "}", "end"}
                  \/ behind = "]" /\ \A j \in 1..i : ts[j].type # "{"
PlainNames(ts) ==
    \/ \A i \in DOMAIN ts : ~(ts[i].type = "string" /\ ts[i].value.text = <<>>)
    \/ \A i \in DOMAIN ts : ~(ts[i].type = "," /\ TypeIn(ts, Skip(ts, i + 1)) = "}")

(* Reader::parse: a document is accepted exactly if its beginning is JSON, *)
(* with the value JSON gives it; comments mean nothing.                    *)
GrammarAccepted ==
    mode = "done" /\ PlainComments(doc) /\ PlainNames(doc) => result = Json(doc)
=============================================================================
