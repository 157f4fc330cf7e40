------------------------------ MODULE BackGuard -----------------------------
(***************************************************************************)
(* The stack of layers the back button closes: shared/lib/backGuard.ts and *)
(* useBackGuard.ts over the history of the browser.                        *)
(*                                                                         *)
(* A record h holds both: guards, the stack, the newest last;              *)
(* internalBacks, the pops that are still expected of the module's own     *)
(* history.back(); depth, the entries above the one the app began with;    *)
(* travels, the history.back() the browser has not carried out.            *)
(***************************************************************************)
EXTENDS Integers, SequencesExt

NoGuards == [guards |-> <<>>, internalBacks |-> 0, depth |-> 0, travels |-> 0]

PushGuard(h, layer) == [h EXCEPT !.guards = Append(@, layer), !.depth = @ + 1]

\* The layer was closed by the app: its entry is taken back, some time later.
PopGuardMutant(h, layer) ==
  IF Contains(h.guards, layer)
  THEN [h EXCEPT !.guards = RemoveFirst(@, layer), !.internalBacks = 1, !.travels = @ + 1]
  ELSE h

PopGuard(h, layer) ==
  IF Contains(h.guards, layer)
  THEN [h EXCEPT !.guards = RemoveFirst(@, layer), !.internalBacks = @ + 1, !.travels = @ + 1]
  ELSE h

\* popstate: one of the module's own is counted off, any other takes the top of the stack.
OnPopState(h) ==
  IF h.internalBacks > 0 THEN [h EXCEPT !.internalBacks = @ - 1]
  ELSE IF h.guards = <<>> THEN h
  ELSE [h EXCEPT !.guards = Front(@)]

\* The layer whose close() the event calls, if it calls one.
Closes(h, none) ==
  IF h.internalBacks > 0 \/ h.guards = <<>> THEN none ELSE Last(h.guards)

\* The browser goes back one entry, for the user or for the module.
GoBack(h) == OnPopState([h EXCEPT !.depth = @ - 1])

\* The effects of a render: first the cleanups of the layers that are gone, then those
\* of the new ones, a child before its parent.
Cleanup(h, layers, l) == IF Contains(layers, l) THEN h ELSE PopGuard(h, l)
Mount(h, l) == IF Contains(h.guards, l) THEN h ELSE PushGuard(h, l)

Rendered(h, layers) ==
  FoldLeft(Mount, FoldLeft(LAMBDA g, l : Cleanup(g, layers, l), h, h.guards), Reverse(layers))
=============================================================================
