----------------------------- MODULE MCIdentities -----------------------------
(* TLC instance of Identities. *)
EXTENDS Identities

CONSTANTS a, b, c, x, y

Says(method, signer, subs, info) ==
    [method |-> method, signer |-> signer, subs |-> subs, info |-> info]

\* Enough for chains, circles and families of the three accounts, and for a parent that
\* has a parent, that has no identity, or that had another child.
SomeExtrinsics ==
    {Says("setIdentity", a, {}, x), Says("setIdentity", c, {}, y), Says("setIdentity", b, {}, Absent),
     Says("addSub", a, {b}, Absent), Says("addSub", b, {c}, Absent), Says("addSub", c, {a}, Absent),
     Says("addSub", b, {b}, Absent), Says("setSubs", a, {b, c}, Absent),
     Says("removeSub", a, {b}, Absent), Says("quitSub", c, {}, Absent),
     Says("clearIdentity", a, {}, Absent)}
=============================================================================
