----------------------------- MODULE Coroutine -----------------------------
(***************************************************************************)
(* The coroutine of a service (l_service_setResume, l_service_resume and   *)
(* l_service_yield in src/src/lucy/core/master.c) and the registry of a    *)
(* thread's Lua state, which holds a reference to each coroutine.          *)
(*                                                                         *)
(* A coroutine is a record:                                                *)
(*   ref     coref: its place in the registry, NoRef if it has none        *)
(*   status  "none" before l_service_initState, then what lua_status says  *)
(*   func    the function to start with                                    *)
(*   kfunc   the function to continue with after a yield                   *)
(*   misused l_service_setResume was called while it was suspended         *)
(* The registry is the list of places given back and the last place used.  *)
(***************************************************************************)
EXTENDS Integers, Sequences

NoRef == -2        \* LUA_NOREF
LastReserved == 2  \* LUA_RIDX_LAST

\* A service is zeroed memory: its coref is 0, and not LUA_NOREF.
Zeroed == [ref |-> 0, status |-> "none", func |-> "", kfunc |-> "", misused |-> FALSE]

EmptyRegistry == [free |-> <<>>, top |-> LastReserved]

\* luaL_ref: a place that was given back, else a new one.
NextRef(reg) == IF reg.free # <<>> THEN Head(reg.free) ELSE reg.top + 1
Referred(reg) ==
    IF reg.free # <<>> THEN [reg EXCEPT !.free = Tail(@)] ELSE [reg EXCEPT !.top = @ + 1]

\* luaL_unref.  Place 0 is the head of the list of places itself, so that the
\* list is cut.
Unreferred(reg, ref) ==
    IF ref > 0 THEN [reg EXCEPT !.free = <<ref>> \o @]
    ELSE IF ref = 0 THEN [reg EXCEPT !.free = <<>>]
    ELSE reg

\* l_service_setResume: the coroutine is created when it is not there.  It
\* takes the new function even if it is suspended, which it then says.
SetResume(c, reg, f) ==
    IF c.status = "none"
    THEN [c EXCEPT !.ref = NextRef(reg), !.status = "ok", !.func = f]
    ELSE [c EXCEPT !.func = f, !.misused = @ \/ c.status # "ok"]

\* l_service_resume: what runs, the function of the last l_service_yield if the
\* coroutine is suspended.
Resumes(c) == IF c.status = "yield" THEN c.kfunc ELSE c.func

\* It runs: lua_resume sets its status back.
Resumed(c) == [c EXCEPT !.status = "ok"]

Yielded(c, k) == [c EXCEPT !.status = "yield", !.kfunc = k]

\* Seeded fault: the reference is forgotten and not given back.
Forgotten(c, reg) == reg

\* l_service_freeState.
FreeState(c, reg) == IF c.ref = NoRef THEN reg ELSE Unreferred(reg, c.ref)
=============================================================================
