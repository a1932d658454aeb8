----------------------------- MODULE TraceErrors -----------------------------
(***************************************************************************)
(* A thrown value in a trace: traceError() of trace/runtime/session.ts,      *)
(* which writes an error with its causes and the errors it aggregates, as    *)
(* far as the budgets of entries, depth and text allow.                      *)
(*                                                                           *)
(* Errors may refer to each other in any way.  Of a text only its bytes are  *)
(* modelled.                                                                  *)
(***************************************************************************)
EXTENDS Integers, Sequences, SequencesExt, FiniteSets

CONSTANTS
  None,
  Errors,      \* instances of Error; anything else that is thrown is Plain
  Plain,
  Thrown,      \* what they are: [name, message, stack, cause, errors], texts by their bytes
  MaxEntries,  \* MAX_ERROR_ENTRIES
  MaxDepth,    \* MAX_ERROR_DEPTH
  MaxText,     \* MAX_ERROR_TEXT_BYTES
  NameBytes, MessageBytes, StackBytes,  \* the limits of one text, at the top
  NestedBytes                           \* and of a message or stack below it

ErrorsAssumption ==
  /\ Plain \notin Errors /\ None \notin Errors /\ None # Plain
  /\ {MaxEntries, MaxText} \subseteq Nat \ {0}
  /\ {MaxDepth, NameBytes, MessageBytes, StackBytes, NestedBytes} \subseteq Nat

VARIABLES
  error,   \* what each error is
  result   \* None, or what is written of the first

vars == <<error, result>>

First == CHOOSE e \in Errors : TRUE

-----------------------------------------------------------------------------
(* The budgets that are left: [entries, text], and the errors on the path.   *)

Less(a, b) == IF a < b THEN a ELSE b

\* takeErrorText(): nothing at all once the budget is used up.
Take(left, bytes, limit) ==
  IF left.text <= 0 THEN [text |-> None, cut |-> TRUE, left |-> left]
  ELSE LET used == Less(bytes, Less(limit, left.text))
       IN [text |-> used, cut |-> used < bytes, left |-> [left EXCEPT !.text = @ - used]]

Counted(left) == [left EXCEPT !.entries = @ - 1]

Limit(depth, top) == IF depth = 0 THEN top ELSE NestedBytes

Leaf(e, depth, name, message, truncated) ==
  [error |-> e, depth |-> depth, name |-> name, message |-> message, stack |-> None,
   cause |-> <<>>, errors |-> <<>>, omitted |-> 0, truncated |-> truncated]

\* serializeUnknownThrownValue()
PlainEntry(depth, left) ==
  LET text == Take(Counted(left), error[Plain].message, Limit(depth, MessageBytes))
  IN [node |-> Leaf(Plain, depth, None, text.text, text.cut), left |-> text.left]

\* An error that is on the path already; it does not count.
CircularEntry(e, depth, left) ==
  LET name == Take(left, error[e].name, NameBytes)
  IN [node |-> Leaf(e, depth, name.text, None, FALSE), left |-> name.left]

RECURSIVE Entry(_, _, _, _)

\* The aggregated errors, until the entries are used up.
Aggregated(e, depth, left, path) ==
  LET Next1(acc, x) ==
        IF acc.left.entries <= 0 THEN acc
        ELSE LET one == Entry(x, depth + 1, acc.left, path)
             IN [nodes |-> Append(acc.nodes, one.node), left |-> one.left]
  IN IF depth < MaxDepth THEN FoldLeft(Next1, [nodes |-> <<>>, left |-> left], error[e].errors)
     ELSE [nodes |-> <<>>, left |-> left]

\* traceErrorEntry(): name, message, cause, aggregated errors and, last of all, the stack.
ErrorEntry(e, depth, left, path) ==
  LET name == Take(Counted(left), error[e].name, NameBytes)
      message == Take(name.left, error[e].message, Limit(depth, MessageBytes))
      follows == depth < MaxDepth /\ message.left.entries > 0
      caused == IF error[e].cause # None /\ follows
                THEN LET one == Entry(error[e].cause, depth + 1, message.left, path \union {e})
                     IN [nodes |-> <<one.node>>, left |-> one.left]
                ELSE [nodes |-> <<>>, left |-> message.left]
      all == Aggregated(e, depth, caused.left, path \union {e})
      omitted == Len(error[e].errors) - Len(all.nodes)
      stack == Take(all.left, error[e].stack, Limit(depth, StackBytes))
      hasStack == error[e].stack > 0
  IN [node |-> [error |-> e, depth |-> depth, name |-> name.text, message |-> message.text,
                stack |-> IF hasStack THEN stack.text ELSE None,
                cause |-> caused.nodes, errors |-> all.nodes, omitted |-> omitted,
                truncated |-> \/ name.cut \/ message.cut \/ (hasStack /\ stack.cut)
                              \/ (error[e].cause # None /\ ~follows)
                              \/ omitted > 0],
      left |-> IF hasStack THEN stack.left ELSE all.left]

Entry(e, depth, left, path) ==
  IF e = Plain THEN PlainEntry(depth, left)
  ELSE IF e \in path THEN CircularEntry(e, depth, left)
  ELSE ErrorEntry(e, depth, left, path)

-----------------------------------------------------------------------------
Init == error \in Thrown /\ result = None

\* traceError()
Serializes ==
  /\ result = None
  /\ result' = Entry(First, 0, [entries |-> MaxEntries, text |-> MaxText], {}).node
  /\ UNCHANGED error

Next == Serializes

Spec == Init /\ [][Next]_vars

-----------------------------------------------------------------------------
(* What is written, as nodes with the path that leads to each. *)

RECURSIVE Under(_, _)
Under(node, path) ==
  {[node |-> node, path |-> path]}
  \union UNION {Under(node.cause[i], Append(path, -i)) : i \in DOMAIN node.cause}
  \union UNION {Under(node.errors[i], Append(path, i)) : i \in DOMAIN node.errors}

Bytes(x) == IF x = None THEN 0 ELSE x

\* A node that stands for an error that it is under.
IsCircular(n, all) ==
  \E m \in all : /\ m.node.error = n.node.error /\ m.node.error # Plain
                 /\ m.path # n.path /\ IsPrefix(m.path, n.path)

\* docs/game-trace.md:227.  What is written has no more entries, depth and text than the
\* budgets allow, references back not counted; every omission is marked where it is; and an
\* error whose stack is cut for want of text stands under errors that have none.
ErrorsAreBounded ==
  result # None =>
    LET all == Under(result, <<>>)
        counted == {n \in all : ~IsCircular(n, all)}
        Text(n) == Bytes(n.node.name) + Bytes(n.node.message) + Bytes(n.node.stack)
        Whole(n) ==
          LET e == error[n.node.error]
          IN /\ n.node.name = e.name /\ n.node.message = e.message
             /\ e.stack > 0 => n.node.stack = e.stack
             /\ e.cause # None => n.node.cause # <<>>
             /\ Len(n.node.errors) = Len(e.errors)
        Starved(n) == /\ n.node.error # Plain /\ error[n.node.error].stack > 0
                      /\ Bytes(n.node.stack) < Less(error[n.node.error].stack,
                                                    Limit(n.node.depth, StackBytes))
    IN /\ Cardinality(counted) <= MaxEntries
       /\ \A n \in all : n.node.depth <= MaxDepth
       /\ FoldFunction(LAMBDA x, y : x + y, 0, [n \in all |-> Text(n)]) <= MaxText
       /\ \A n \in counted : n.node.error # Plain => (n.node.truncated <=> ~Whole(n))
       /\ \A n \in counted : Starved(n) =>
            \A m \in counted : m.path # n.path /\ IsPrefix(m.path, n.path) => m.node.stack = None
=============================================================================
