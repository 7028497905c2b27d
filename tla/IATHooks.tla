------------------------------ MODULE IATHooks ------------------------------
(***************************************************************************)
(* hook/iat.py: the import slots of one mapped image, and the table of the *)
(* slots the client redirected.  A slot is found by walking the imports of *)
(* the module whose name, whole, is the one the client gave; it is written *)
(* only if its page can be accessed.                                       *)
(***************************************************************************)
EXTENDS LoadedModules

CONSTANTS
  Functions,    \* the functions the executable imports
  Replacements, \* the addresses the client redirects a slot to
  Genuine,      \* the address the loader resolved an import to
  ClientNames,  \* the names the client calls the executable by
  Again         \* BOOLEAN: the client redirects a slot it has already redirected

(* An executable exports no name of its own: its path is the one it has. *)
ASSUME HookAssumption ==
  /\ Genuine \notin Replacements
  /\ Again \in BOOLEAN
  /\ ClientNames \subseteq {Path(Exe)}

VARIABLES
  slot,   \* [Functions -> the address in the import slot]
  hooks,  \* _hooks: [<<name, function>> -> [base, original]]
  lost    \* history: the functions whose restore failed

hookVars == <<slot, hooks, lost>>

(* _find_module: the first of the modules whose name is the client's, in   *)
(* full.                                                                   *)
module_named(name) ==
  LET named == {m \in enumerate : m.name = name}
  IN IF named = {} THEN NoModule ELSE Lowest(named)

(* _find_iat_addr parses the image where it is mapped: one unreadable page *)
(* of it fails the call.                                                   *)
Parses(m) == \A a \in m.base .. m.base + m.size - 1 : Readable(a)

FindsSlot(name) == /\ module_named(name) # NoModule
                   /\ module_named(name).size # 0
                   /\ Parses(module_named(name))

(* A slot lies in the last page of the image. *)
Writable(base) == Readable(base + SizeOf[Exe] - 1)

\* Mutant of saved: the slot read back after it was written.
saved_late(f, new) == new

(* The value a record keeps is the one read before the slot is written. *)
saved(f, new) == slot[f]

IatSet(name, f, new) ==
  /\ FindsSlot(name)
  /\ Again \/ (<<name, f>> \notin DOMAIN hooks /\ f \notin lost)
  /\ slot' = [slot EXCEPT ![f] = new]
  /\ hooks' = [k \in DOMAIN hooks \cup {<<name, f>>} |->
                 IF k = <<name, f>>
                 THEN [base |-> module_named(name).base, original |-> saved(f, new)]
                 ELSE hooks[k]]
  /\ lost' = lost \ {f}

(* The record is gone before the slot is written, so a write that fails    *)
(* leaves the slot redirected and nothing to restore it from.              *)
IatRestore(name, f) ==
  /\ <<name, f>> \in DOMAIN hooks
  /\ hooks' = [k \in DOMAIN hooks \ {<<name, f>>} |-> hooks[k]]
  /\ IF Writable(hooks[<<name, f>>].base)
     THEN slot' = [slot EXCEPT ![f] = hooks[<<name, f>>].original] /\ lost' = lost
     ELSE slot' = slot /\ lost' = lost \cup {f}

(* With no record the client's own original is written, if it gives one. *)
IatRestoreWith(name, f, original) ==
  /\ <<name, f>> \notin DOMAIN hooks
  /\ FindsSlot(name)
  /\ slot' = [slot EXCEPT ![f] = original]
  /\ lost' = lost \ {f}
  /\ hooks' = hooks

HooksInit == slot = [f \in Functions |-> Genuine] /\ hooks = <<>> /\ lost = {}

Hooking ==
  \E name \in ClientNames, f \in Functions :
    \/ \E new \in Replacements : IatSet(name, f, new)
    \/ IatRestore(name, f)
    \/ IatRestoreWith(name, f, Genuine)

-----------------------------------------------------------------------------
(* Every slot the client redirected can be given back what the loader put  *)
(* there: a redirected slot has a record holding the genuine address, and  *)
(* a slot with a record is redirected, except where a restore failed to    *)
(* write (iat.py restore pops the record first).                           *)
HooksUndone ==
  \A f \in Functions :
    LET records == {k \in DOMAIN hooks : k[2] = f}
    IN /\ slot[f] # Genuine => records # {} \/ f \in lost
       /\ \A k \in records : hooks[k].original = Genuine /\ slot[f] # Genuine
=============================================================================
