----------------------------- MODULE JsonReader -----------------------------
(***************************************************************************)
(* Json::Reader::parse (src/jsoncpp/json_reader.cpp): readValue,           *)
(* readObject, readArray and the recovery from errors, token by token, as  *)
(* DPP_V1_Parser::parseFile calls it for a definition file: comments are   *)
(* allowed and not collected, the root need not be an array or an object,  *)
(* what follows the root is ignored.                                       *)
(*                                                                         *)
(* The recursion of readValue is the stack nodes; the top one is           *)
(* currentValue().  The document is its sequence of tokens.                *)
(***************************************************************************)
EXTENDS JsonValue

CONSTANT Documents     \* sequences of tokens

TokenTypes == {"{", "}", "[", "]", ",", ":", "string", "scalar", "comment", "error"}

ASSUME ReaderAssumption ==
    \A d \in Documents :
        /\ d \in Seq({d[i] : i \in DOMAIN d})
        /\ \A i \in DOMAIN d : d[i].type \in TokenTypes

VARIABLES
    doc,       \* the document; fixed
    at,        \* current_: the next token
    mode,      \* what comes next: "value", "name", "separator", "recover", "done"
    nodes,     \* nodes_: unfinished arrays and objects, and the name being read
    errors,    \* errors_: the tokens that were not expected
    result     \* root, once the document is accepted: a set of at most one value

readerVars == <<doc, at, mode, nodes, errors, result>>

-----------------------------------------------------------------------------
(* Tokens.                                                                 *)
TypeAt(i) == IF i <= Len(doc) THEN doc[i].type ELSE "end"

(* getNextChar does not pass the end.                                      *)
After_BeforeLast(i) == IF i < Len(doc) THEN i + 1 ELSE i
After(i) == IF i <= Len(doc) THEN i + 1 ELSE i

(* skipCommentTokens: the first token from i on that is no comment.        *)
NonComment(i) ==
    CHOOSE j \in i..(Len(doc) + 1) :
        /\ TypeAt(j) # "comment"
        /\ \A k \in i..(j - 1) : TypeAt(k) = "comment"

(* Where a recovery stops: after the first token of the type, or the end.  *)
PastEnd(i, type) ==
    LET j == CHOOSE j \in i..(Len(doc) + 1) :
                /\ TypeAt(j) \in {type, "end"}
                /\ \A k \in i..(j - 1) : TypeAt(k) # type
    IN  After(j)

-----------------------------------------------------------------------------
(* Nodes.                                                                  *)
CurrentNode == nodes[Len(nodes)]
Callers == SubSeq(nodes, 1, Len(nodes) - 1)

NewNode(value) == [value |-> value, name |-> <<>>]
InObject == nodes # <<>> /\ IsObject(CurrentNode.value)
InArray == nodes # <<>> /\ IsArray(CurrentNode.value)

Filled(node, v) ==
    [node EXCEPT !.value = IF IsObject(node.value)
                           THEN WithMember(node.value, node.name, v)
                           ELSE Appended(node.value, v)]

(* readValue returns true, with v read, to callers.                        *)
Return(v, callers) ==
    /\ IF callers = <<>>
       THEN mode' = "done" /\ nodes' = <<>> /\ result' = {v}
       ELSE /\ mode' = "separator"
            /\ nodes' = [callers EXCEPT ![Len(callers)] = Filled(@, v)]
            /\ UNCHANGED result
    /\ UNCHANGED <<doc, errors>>

(* It returns false: the callers recover, which adds no errors.            *)
ReturnFalse_NoRecovery(callers) ==
    /\ mode' = IF callers = <<>> THEN "done" ELSE "separator"
    /\ nodes' = callers
    /\ UNCHANGED <<doc, result>>
ReturnFalse(callers) ==
    /\ mode' = IF callers = <<>> THEN "done" ELSE "recover"
    /\ nodes' = callers
    /\ UNCHANGED <<doc, result>>

(* addErrorAndRecover, and addError of a value that is missing.            *)
AddError(i, callers) ==
    /\ errors' = Append(errors, i)
    /\ at' = After(i)
    /\ ReturnFalse(callers)

-----------------------------------------------------------------------------
(* readValue.                                                              *)
ReaderStart ==
    /\ at = 1 /\ mode = "value" /\ nodes = <<>> /\ errors = <<>> /\ result = {}
ReaderInit == doc \in Documents /\ ReaderStart

ReadScalar ==
    /\ mode = "value"
    /\ LET i == NonComment(at) IN
       /\ TypeAt(i) \in {"scalar", "string"}
       /\ at' = After(i)
       /\ Return(doc[i].value, nodes)

BeginObject ==
    /\ mode = "value"
    /\ LET i == NonComment(at) IN TypeAt(i) = "{" /\ at' = After(i)
    /\ mode' = "name"
    /\ nodes' = Append(nodes, NewNode(EmptyObject))
    /\ UNCHANGED <<doc, errors, result>>

(* An array is empty when the very next token closes it; a comment in      *)
(* between makes it one whose first value is missing.                      *)
BeginArray ==
    /\ mode = "value"
    /\ LET i == NonComment(at) IN
       /\ TypeAt(i) = "["
       /\ \/ /\ TypeAt(i + 1) = "]"
             /\ at' = After(i + 1)
             /\ Return(EmptyArray, nodes)
          \/ /\ TypeAt(i + 1) # "]"
             /\ at' = After(i) /\ mode' = "value"
             /\ nodes' = Append(nodes, NewNode(EmptyArray))
             /\ UNCHANGED <<doc, errors, result>>

MissingValue ==
    /\ mode = "value"
    /\ LET i == NonComment(at) IN
       /\ TypeAt(i) \notin {"scalar", "string", "{", "["}
       /\ AddError(i, nodes)

-----------------------------------------------------------------------------
(* readObject.  name is empty until a member is read; the closing brace is *)
(* taken in place of a name only then.                                     *)
EndEmptyObject_AnyName ==
    /\ mode = "name"
    /\ LET i == NonComment(at) IN TypeAt(i) = "}" /\ at' = After(i)
    /\ Return(CurrentNode.value, Callers)
EndEmptyObject ==
    /\ mode = "name"
    /\ LET i == NonComment(at) IN TypeAt(i) = "}" /\ at' = After(i)
    /\ CurrentNode.name = <<>>
    /\ Return(CurrentNode.value, Callers)

ReadName ==
    /\ mode = "name"
    /\ LET i == NonComment(at) IN
       /\ TypeAt(i) = "string"
       /\ \/ /\ TypeAt(i + 1) = ":"
             /\ at' = After(i + 1)
             /\ mode' = "value"
             /\ nodes' = [nodes EXCEPT ![Len(nodes)] =
                             [value |-> WithPlace(@.value, doc[i].value.text),
                              name |-> doc[i].value.text]]
             /\ UNCHANGED <<doc, errors, result>>
          \/ TypeAt(i + 1) # ":" /\ AddError(i + 1, nodes)

MissingName ==
    /\ mode = "name"
    /\ LET i == NonComment(at) IN
       /\ TypeAt(i) # "string"
       /\ ~(TypeAt(i) = "}" /\ CurrentNode.name = <<>>)
       /\ AddError(i, nodes)

EndObject ==
    /\ mode = "separator" /\ InObject
    /\ LET i == NonComment(at) IN TypeAt(i) = "}" /\ at' = After(i)
    /\ Return(CurrentNode.value, Callers)

(* A comma; but after a comment any token that does not close the object   *)
(* is taken for one.                                                       *)
NextMember ==
    /\ mode = "separator" /\ InObject
    /\ LET i == NonComment(at) IN
       /\ TypeAt(i) # "}"
       /\ TypeAt(at) \in {",", "comment"}
       /\ at' = After(i)
    /\ mode' = "name"
    /\ UNCHANGED <<doc, nodes, errors, result>>

MissingComma ==
    /\ mode = "separator" /\ InObject
    /\ TypeAt(at) \notin {"}", ",", "comment"}
    /\ AddError(at, nodes)

-----------------------------------------------------------------------------
(* readArray.                                                              *)
EndArray ==
    /\ mode = "separator" /\ InArray
    /\ LET i == NonComment(at) IN TypeAt(i) = "]" /\ at' = After(i)
    /\ Return(CurrentNode.value, Callers)

NextItem ==
    /\ mode = "separator" /\ InArray
    /\ LET i == NonComment(at) IN TypeAt(i) = "," /\ at' = After(i)
    /\ mode' = "value"
    /\ UNCHANGED <<doc, nodes, errors, result>>

MissingItemComma ==
    /\ mode = "separator" /\ InArray
    /\ LET i == NonComment(at) IN
       TypeAt(i) \notin {"]", ","} /\ AddError(i, nodes)

-----------------------------------------------------------------------------
(* recoverFromError: skip to the end of the object or array, and let the   *)
(* caller do the same.                                                     *)
Recover ==
    /\ mode = "recover"
    /\ at' = PastEnd(at, IF InObject THEN "}" ELSE "]")
    /\ ReturnFalse(Callers)
    /\ UNCHANGED errors

ReaderNext ==
    \/ ReadScalar \/ BeginObject \/ BeginArray \/ MissingValue
    \/ EndEmptyObject \/ ReadName \/ MissingName
    \/ EndObject \/ NextMember \/ MissingComma
    \/ EndArray \/ NextItem \/ MissingItemComma
    \/ Recover

ReaderSpec == ReaderInit /\ [][ReaderNext]_readerVars

-----------------------------------------------------------------------------
(* Types: only a finished reading has no unfinished node, and a name is    *)
(* read in an object.                                                      *)
Modes == {"value", "name", "separator", "recover", "done"}
ReaderTypeOK ==
    /\ doc \in Documents
    /\ at \in 1..(Len(doc) + 1)
    /\ mode \in Modes
    /\ nodes \in Seq({nodes[k] : k \in DOMAIN nodes})
    /\ \A k \in DOMAIN nodes : IsObject(nodes[k].value) \/ IsArray(nodes[k].value)
    /\ mode \in {"name", "separator", "recover"} => nodes # <<>>
    /\ mode = "name" => InObject
    /\ mode = "done" => nodes = <<>>

(* readValue and recoverFromError: at most one error is kept, and exactly  *)
(* a document that is refused has one.                                     *)
OneError ==
    /\ Len(errors) <= 1
    /\ mode = "done" => (result = {} <=> errors # <<>>)

(* No loop of the reader goes on for ever: with every step the document    *)
(* that is left, or the number of callers, becomes smaller.                *)
Remaining ==
    2 * (Len(doc) + 1 - at) + Len(nodes)
        + (IF mode \in {"value", "name", "separator"} THEN 1 ELSE 0)
ReaderProgress == [][doc' = doc => Remaining' < Remaining /\ Remaining >= 0]_readerVars
=============================================================================
