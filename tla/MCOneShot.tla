------------------------------ MODULE MCOneShot ------------------------------
(* An instance of OneShot for TLC: among the bodies are one whose last item    *)
(* cannot be serialized, and some that share a raw receiver.                   *)
EXTENDS OneShot

CONSTANTS h1, h2, t1, t2

Item(kind, handle) == [kind |-> kind, handle |-> handle]

MCMute == {Item("shared_memory", h2)}

MCBodies ==
  {<<Item("shared_memory", h1), Item("sender", h1), Item("receiver", h1)>>,
   <<Item("subsender", h1), Item("receiver", h1), Item("shared_memory", h2)>>,
   <<Item("subsender", h2), Item("sender", h2), Item("sender", h1), Item("subsender", h1)>>,
   <<Item("receiver", h2), Item("receiver", h2)>>,
   <<>>}
=============================================================================
