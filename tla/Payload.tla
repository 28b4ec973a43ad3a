------------------------------- MODULE Payload -------------------------------
(***************************************************************************)
(* What becomes of a message before it is sent (serialize.go, ordered.go): *)
(* three walks over it, each with its recursion as an explicit stack.      *)
(*                                                                         *)
(* - serializeModelAtUnchecked and serializeValue collect the validation   *)
(*   issues of nested models and lists, merging what a nested one found;   *)
(* - validateJSONAt walks a JSON value, a graph of maps, pointers and      *)
(*   slices that may share parts and may be cyclic;                        *)
(* - limitedJSONEncoder encodes the payload and stops at the size limit.   *)
(***************************************************************************)
EXTENDS Integers, Sequences, FiniteSets, SequencesExt, FiniteSetsExt

CONSTANTS
  MaxValidationIssues, MaxIssuePath, MaxPathBytes,  \* the limits on what is retained
  PathMarker,                     \* len(validationPathMarker)
  CountLimit,                     \* math.MaxInt32
  PathLengths,                    \* lengths of the paths of issues
  MaxFound, MaxModelDepth,        \* bounds on the input: issues, and nesting
  Nodes, Root, MaxChildren,       \* the JSON graph
  EncodeLimit, PieceLengths       \* maxPayloadBytes; lengths of what is encoded

ASSUME PayloadAssumption ==
  /\ MaxValidationIssues \in Nat \ {0} /\ MaxIssuePath \in Nat /\ PathMarker \in 1..(MaxIssuePath - 1)
  /\ MaxPathBytes >= MaxIssuePath
  /\ CountLimit > MaxValidationIssues /\ PathLengths \subseteq Nat \ {0}
  /\ Nodes \subseteq Nat /\ Root \in Nodes /\ EncodeLimit \in Nat /\ PieceLengths \subseteq Nat \ {0}

VARIABLES
  frames, found, serialized,      \* the open models and lists; every issue met; how it ended
  reported,                       \* what the caller's Error says of the issues
  jsonValue, walkStack, walked,   \* the JSON value; validateJSONAt's calls; how far it is
  activeAncestors,                \* the map of that name
  cycles, badKeys,                \* how many CYCLE issues, and issues of a map's keys
  buffered, fullSize, encoded     \* e.buffer.Len(); length without a limit; how it ended

issueVars  == <<frames, found, serialized, reported>>
walkVars   == <<jsonValue, walkStack, walked, activeAncestors, cycles, badKeys>>
encodeVars == <<buffered, fullSize, encoded>>
payloadVars == <<issueVars, walkVars, encodeVars>>

NoIssues == [count |-> 0, issues |-> <<>>, bytes |-> 0]

\* IssueCount, ValidationIssues and IssuesTruncated, as serializerOperationError sets them.
serializerOperationError(count, issues) ==
  [count |-> count, issues |-> issues, truncated |-> count # Len(issues)]

\* A JSON value: the children of every map, pointer and slice in it; the maps with a key that
\* is no string or not valid Unicode; the address that stands for a node in jsonAncestor.
\* (What a pointer to an array points to has the array's elements for children.)
Values ==
  [children : [Nodes -> BoundedSeq(Nodes, MaxChildren)], badMaps : SUBSET Nodes,
   address : [Nodes -> Nodes]]

\* A bad key is a key of some entry.  Only pointers share an address: to an array and to its
\* first element, say, whose children are then the first of the array's.
Representable(v) ==
  /\ \A n \in v.badMaps : v.children[n] # <<>>
  /\ \A n \in Nodes : v.address[n] <= n /\ v.address[v.address[n]] = v.address[n]
  /\ \A m, n \in Nodes : m # n /\ v.address[m] = v.address[n] =>
       /\ m \notin v.badMaps /\ v.children[m] # <<>> /\ v.children[n] # <<>>
       /\ IsPrefix(v.children[m], v.children[n]) \/ IsPrefix(v.children[n], v.children[m])

PayloadInit ==
  /\ frames = <<NoIssues>> /\ found = <<>> /\ serialized = "walking"
  /\ reported = serializerOperationError(0, <<>>)
  /\ jsonValue = [children |-> [n \in Nodes |-> <<>>], badMaps |-> {}, address |-> [n \in Nodes |-> n]]
  /\ walkStack = <<>> /\ walked = "idle" /\ activeAncestors = {} /\ cycles = 0 /\ badKeys = 0
  /\ buffered = 0 /\ fullSize = 0 /\ encoded = "writing"
-----------------------------------------------------------------------------
(* Collecting issues.  An issue is its position in found and the length of *)
(* its path once truncated.                                                *)

\* A long path is cut back to the end of one of its steps, and marked.
TruncatePath(length) == IF length <= MaxIssuePath THEN {length} ELSE (PathMarker + 1)..MaxIssuePath

Retain(e, issue) ==
  IF Len(e.issues) >= MaxValidationIssues \/ e.bytes + issue.path > MaxPathBytes THEN e
  ELSE [e EXCEPT !.issues = Append(@, issue), !.bytes = @ + issue.path]

SaturatingCount(current, increment) ==
  IF current >= CountLimit - increment THEN CountLimit ELSE current + increment

\* Seeded fault: what the merged issues add up to is not bounded.
MergeUnbounded(e, other) ==
  [FoldLeft(LAMBDA acc, issue : [acc EXCEPT !.issues = Append(@, issue)], e, other.issues)
     EXCEPT !.count = e.count + other.count]

Merge(e, other) ==
  [FoldLeft(Retain, e, other.issues) EXCEPT !.count = SaturatingCount(e.count, other.count)]

\* A field or a list item is of the wrong kind, null or absent.
AddIssue(length) ==
  /\ serialized = "walking" /\ Len(found) < MaxFound
  /\ \E path \in TruncatePath(length) :
       LET issue == [at |-> Len(found) + 1, path |-> path]
           top == Last(frames)
       IN /\ found' = Append(found, issue)
          /\ frames' = Append(Front(frames),
                              Retain([top EXCEPT !.count = SaturatingCount(@, 1)], issue))
  /\ UNCHANGED <<serialized, reported, walkVars, encodeVars>>

EnterNested ==
  /\ serialized = "walking" /\ Len(frames) < MaxModelDepth
  /\ frames' = Append(frames, NoIssues)
  /\ UNCHANGED <<found, serialized, reported, walkVars, encodeVars>>

\* A nested model or list returns its payload, or its issues for its parent to merge.
LeaveNested ==
  /\ serialized = "walking" /\ Len(frames) > 1
  /\ LET outer == Front(frames)
     IN frames' = IF Last(frames).count = 0 THEN outer
                  ELSE Append(Front(outer), Merge(Last(outer), Last(frames)))
  /\ UNCHANGED <<found, serialized, reported, walkVars, encodeVars>>

\* The message or a nested value is no object at all, which is no validation issue: every
\* model and list on the way out gives up what it found, and the caller gets one issue,
\* of the whole message.
WholeMessage == [at |-> 0, path |-> 1]

NotAnObject ==
  /\ serialized = "walking" /\ serialized' = "fatal"
  /\ reported' = serializerOperationError(1, <<WholeMessage>>)
  /\ UNCHANGED <<frames, found, walkVars, encodeVars>>

FinishModel ==
  /\ serialized = "walking" /\ Len(frames) = 1
  /\ IF frames[1].count = 0 THEN serialized' = "payload" /\ UNCHANGED reported
     ELSE /\ serialized' = "issues"
          /\ reported' = serializerOperationError(frames[1].count, frames[1].issues)
  /\ UNCHANGED <<frames, found, walkVars, encodeVars>>

SerializeNext ==
  \/ EnterNested \/ LeaveNested \/ NotAnObject \/ FinishModel
  \/ \E length \in PathLengths : AddIssue(length)
-----------------------------------------------------------------------------
(* Looking for cycles.  A call of validateJSONAt is the node it is at and  *)
(* the child it comes to next; a node without children is a scalar, or an  *)
(* empty map or slice.                                                     *)

\* A bad key ends the look at its map before any child is visited.
Call(v, n) == [node |-> n, next |-> IF n \in v.badMaps THEN Len(v.children[n]) + 1 ELSE 1]

Enter(v, n, stack) ==
  /\ walkStack' = Append(stack, Call(v, n))
  /\ activeAncestors' = activeAncestors \cup {v.address[n]}
  /\ badKeys' = badKeys + (IF n \in v.badMaps THEN 1 ELSE 0)

ValidateJSON ==
  /\ walked = "idle" /\ walked' = "walking"
  /\ \E v \in {v \in Values : Representable(v)} : jsonValue' = v /\ Enter(v, Root, walkStack)
  /\ UNCHANGED <<cycles, issueVars, encodeVars>>

Child == jsonValue.children[Last(walkStack).node][Last(walkStack).next]
Advanced == Append(Front(walkStack), [Last(walkStack) EXCEPT !.next = @ + 1])
AtEnd == Last(walkStack).next > Len(jsonValue.children[Last(walkStack).node])

VisitChild ==
  /\ walked = "walking" /\ ~AtEnd
  /\ IF jsonValue.address[Child] \in activeAncestors
     THEN cycles' = cycles + 1 /\ walkStack' = Advanced /\ UNCHANGED <<activeAncestors, badKeys>>
     ELSE Enter(jsonValue, Child, Advanced) /\ UNCHANGED cycles
  /\ UNCHANGED <<jsonValue, walked, issueVars, encodeVars>>

\* Seeded fault: a node that was left still counts as an ancestor.
LeaveMarked ==
  /\ walked = "walking" /\ AtEnd
  /\ walkStack' = Front(walkStack)
  /\ walked' = IF Len(walkStack) = 1 THEN "done" ELSE walked
  /\ UNCHANGED <<jsonValue, activeAncestors, cycles, badKeys, issueVars, encodeVars>>

LeaveNode ==
  /\ walked = "walking" /\ AtEnd
  /\ walkStack' = Front(walkStack)
  /\ activeAncestors' = activeAncestors \ {jsonValue.address[Last(walkStack).node]}
  /\ walked' = IF Len(walkStack) = 1 THEN "done" ELSE walked
  /\ UNCHANGED <<jsonValue, cycles, badKeys, issueVars, encodeVars>>

WalkNext == ValidateJSON \/ VisitChild \/ LeaveNode
-----------------------------------------------------------------------------
(* Encoding up to the limit.                                               *)

\* write: one byte more than the limit is kept, to tell "at the limit" from "past it".
Write(length) ==
  LET remaining == EncodeLimit + 1 - buffered
      kept == Min({length, remaining})
  IN IF remaining <= 0 THEN encoded' = "limit" /\ UNCHANGED buffered
     ELSE /\ buffered' = buffered + kept
          /\ encoded' = IF buffered + kept > EncodeLimit THEN "limit" ELSE encoded

WritePiece(length) ==
  /\ encoded = "writing"
  /\ fullSize' = fullSize + length /\ Write(length)
  /\ UNCHANGED <<issueVars, walkVars>>

\* Seeded fault: a string that would exactly fill the buffer is taken to be too long.
WriteStringEarly(length, escapes) ==
  /\ encoded = "writing"
  /\ fullSize' = fullSize + length + 2 + escapes
  /\ IF length + 2 > EncodeLimit - 1 - buffered
     THEN buffered' = EncodeLimit + 1 /\ encoded' = "limit"
     ELSE Write(length + 2 + escapes)
  /\ UNCHANGED <<issueVars, walkVars>>

\* A string that does not fit even without escapes is not encoded: fillLimit.
WriteString(length, escapes) ==
  /\ encoded = "writing"
  /\ fullSize' = fullSize + length + 2 + escapes
  /\ IF length + 2 > EncodeLimit + 1 - buffered
     THEN buffered' = EncodeLimit + 1 /\ encoded' = "limit"
     ELSE Write(length + 2 + escapes)
  /\ UNCHANGED <<issueVars, walkVars>>

FinishEncoding ==
  /\ encoded = "writing" /\ encoded' = "written"
  /\ UNCHANGED <<buffered, fullSize, issueVars, walkVars>>

\* encodeJSONValue cannot marshal the value: there is no payload.
EncodeFails ==
  /\ encoded = "writing" /\ encoded' = "failed"
  /\ UNCHANGED <<buffered, fullSize, issueVars, walkVars>>

EncodeNext ==
  \/ FinishEncoding \/ EncodeFails
  \/ \E length \in PieceLengths : WritePiece(length)
  \/ \E length \in PieceLengths, escapes \in 0..1 : WriteString(length, escapes)
-----------------------------------------------------------------------------
(* Properties                                                              *)

\* Sum of the lengths with which issues are retained.
PathBytes(issues) == FoldLeft(LAMBDA sum, issue : sum + issue.path, 0, issues)

\* However models and lists nest, the error the caller gets counts every issue, lists at
\* most the permitted number and bytes of them, in the order they were met and beginning
\* with the first, and lists all of them when they fit: so IssuesTruncated
\* (issueCount # len(issues)) says whether any is missing.  The exception is a value that
\* is no object where a model is expected: whatever was found before, the error then has
\* one issue, counts one and is not truncated.
IssuesAreExact ==
  /\ \A i \in 1..Len(frames) :
       /\ Len(frames[i].issues) <= MaxValidationIssues
       /\ frames[i].bytes = PathBytes(frames[i].issues) /\ frames[i].bytes <= MaxPathBytes
  /\ serialized = "payload" => found = <<>>
  /\ serialized = "issues" =>
       /\ found # <<>> /\ reported.count = Min({Len(found), CountLimit})
       /\ reported.issues # <<>> /\ reported.issues[1] = found[1]
       /\ \A i, j \in 1..Len(reported.issues) : i < j => reported.issues[i].at < reported.issues[j].at
       /\ Len(found) <= MaxValidationIssues /\ PathBytes(found) <= MaxPathBytes => reported.issues = found
       /\ reported.truncated <=> reported.issues # found
  /\ serialized = "fatal" =>
       reported.count = 1 /\ reported.issues = <<WholeMessage>> /\ ~reported.truncated

\* The nodes below n: all of them, and those that can be reached past no bad key.
Below(n, children) ==
  LET within[k \in 1..Cardinality(Nodes)] ==
        IF k = 1 THEN ToSet(children[n])
        ELSE within[k - 1] \cup UNION {ToSet(children[m]) : m \in within[k - 1]}
  IN within[Cardinality(Nodes)]

OpenChildren == [n \in Nodes |-> IF n \in jsonValue.badMaps THEN <<>> ELSE jsonValue.children[n]]

Cyclic == \E n \in Below(Root, jsonValue.children) \cup {Root} : n \in Below(n, jsonValue.children)

\* Somewhere a node lies below another with the same address.
AddressRepeats ==
  \E n \in Below(Root, OpenChildren) \cup {Root} : \E m \in Below(n, OpenChildren) :
    jsonValue.address[m] = jsonValue.address[n]

\* validateJSONAt terminates on every value, and never deeper than there are addresses.  A
\* cyclic value never passes: it has a CYCLE issue or one of a bad key, which may hide the
\* cycle.  CYCLE is reported exactly when, past no bad key, a node lies below one with its
\* address: for a part that is merely shared it is not, but it is for a pointer to an array
\* that holds a pointer to its own first element.
WalkIsExact ==
  /\ Len(walkStack) = Cardinality(activeAncestors)
  /\ activeAncestors = {jsonValue.address[walkStack[i].node] : i \in 1..Len(walkStack)}
  /\ walked = "done" =>
       /\ cycles > 0 <=> AddressRepeats
       /\ Cyclic => cycles > 0 \/ badKeys > 0
       /\ badKeys = 0 /\ (\A n \in Nodes : jsonValue.address[n] = n) => (cycles > 0 <=> Cyclic)

\* The encoder's buffer passes the limit, by one byte, exactly when the whole encoding
\* would: Send turns a body longer than maxPayloadBytes, and no other, into
\* ErrorCodeRequestTooLarge, and e.buffer never holds more than that one byte too much.
\* (A value that is no string is encoded whole by encodeJSONValue before write cuts it.)
LimitIsExact ==
  /\ buffered <= EncodeLimit + 1
  /\ encoded = "limit" => buffered = EncodeLimit + 1 /\ fullSize > EncodeLimit
  /\ encoded \in {"writing", "written"} => buffered = fullSize /\ fullSize <= EncodeLimit
=============================================================================
