----------------------------- MODULE MCGemScreen -----------------------------
(* Instances of GemScreen for TLC. *)
EXTENDS GemScreen, TLC

CONSTANTS a1, a2

\* A dialog with a text and two exits, and one with two radio buttons, a
\* TOUCHEXIT and an exit.
MCFlags ==
    (a1 :> (0 :> {} @@ 1 :> {"edit"} @@ 2 :> {"sel", "exit"}
            @@ 3 :> {"sel", "exit", "esc"}))
    @@ (a2 :> (0 :> {} @@ 1 :> {"sel", "radio"} @@ 2 :> {"sel", "radio"}
               @@ 3 :> {"touch"} @@ 4 :> {"sel", "exit"}))
MCParent == [a \in {a1, a2} |-> [o \in DOMAIN MCFlags[a] |-> IF o = 0 THEN -1 ELSE 0]]
MCInitial == (a1 :> {2}) @@ (a2 :> {})
MCObjectAt == (a1 :> (0 :> 1 @@ 1 :> 2 @@ 2 :> 3)) @@ (a2 :> (0 :> 1 @@ 1 :> 2 @@ 2 :> 4))
MCButtonAt == (0 :> 1 @@ 1 :> 2 @@ 2 :> -1)
MCAlerts == {[kind |-> "alert", n |-> 2, def |-> 2, esc |-> 1],
             [kind |-> "error", n |-> 1, def |-> 1, esc |-> 0]}

Box(x, w) == [x |-> x, w |-> w]
MCTrackers ==
    {[op |-> "rub", rect |-> Box(1, 1), cons |-> Box(0, 1), min |-> 1],
     [op |-> "drag", rect |-> Box(0, 1), cons |-> Box(0, 2), min |-> 0],
     [op |-> "slide", rect |-> Box(1, 1), cons |-> Box(0, 3), min |-> 0],
     [op |-> "watch", rect |-> Box(1, 2), cons |-> Box(0, 1), min |-> 0]}
MCPaths == {[op |-> "move", from |-> Box(0, 1), to |-> Box(2, 1)],
            [op |-> "grow", from |-> Box(1, 1), to |-> Box(0, 3)],
            [op |-> "shrink", from |-> Box(1, 1), to |-> Box(0, 3)]}

\* A sample moves or presses, or brings a key.
MCSamples ==
    {[x |-> x, down |-> d, key |-> NoKey] : x \in 0 .. 2, d \in BOOLEAN}
    \cup {[x |-> 1, down |-> d, key |-> k] : d \in BOOLEAN, k \in FormKeys}

\* Nothing reads the last sample of the events.
MCView == <<modalVars, formVars, grafVars, top>>
=============================================================================
