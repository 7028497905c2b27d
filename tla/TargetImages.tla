---------------------------- MODULE TargetImages ----------------------------
(***************************************************************************)
(* The client's view of a running target's images: module questions, import *)
(* hooks and tolerant reads, over one address space the loader changes     *)
(* underneath them.  A question and a hook are one call each; a tolerant   *)
(* read is several, and the client makes no other call until it is done.   *)
(***************************************************************************)
EXTENDS IATHooks, SafeRead

vars == <<targetVars, clientVars, hookVars, reading>>

TargetStep == Target /\ Witnessed /\ UNCHANGED hookVars

ClientStep ==
  /\ reading = NotRequested
  /\ \/ WaitEvent /\ UNCHANGED <<hookVars, reading>>
     \/ Questions /\ UNCHANGED <<hookVars, reading>>
     \/ Hooking /\ answer' = NoModule /\ UNCHANGED <<targetVars, recorded, held, reading>>

(* Bound.  A tolerant read looks at nothing the client keeps, and changes  *)
(* nothing of it, so it is enough to read before any of that has changed.  *)
NothingAskedYet == hooks = <<>> /\ lost = {} /\ \A b \in DOMAIN recorded : recorded[b] = 0

ReadStep ==
  NothingAskedYet /\ Reading /\ answer' = NoModule /\ UNCHANGED <<targetVars, recorded, held, hookVars>>

Init == ModulesInit /\ HooksInit /\ ReadInit
Next == TargetStep \/ ClientStep \/ ReadStep
Spec == Init /\ [][Next]_vars

-----------------------------------------------------------------------------
(* The images whose event the client has received. *)
Announced == {i \in DOMAIN mapped : pending = NoModule \/ pending.image # i}

HeaderReadable(i) == PageOf(mapped[i]) \notin unreadable

Is(m, i) == /\ m.base = mapped[i]
            /\ HeaderReadable(i) => m.size = SizeOf[i]

ListsTheMapped(listing) ==
  /\ \A i \in Announced \cup (IF ready THEN listed ELSE {}) :
       /\ Cardinality({m \in listing : m.base = mapped[i]}) = 1
       /\ \E m \in listing : Is(m, i)
  /\ \A m \in listing : m.source = "psapi" => ImageAt(m.base) # {}

(* What a record still says of an image that is gone, while no header read *)
(* where it was says otherwise.                                            *)
IsGone(m) ==
  /\ \E i \in Images : <<i, m.base>> \in departed /\ m.size = SizeOf[i]
  /\ \A i \in ImageAt(m.base) : ~HeaderReadable(i)

HoldsTheAddress(m, addr) ==
  /\ \A i \in Announced : addr \in Span(i) /\ HeaderReadable(i) => m # NoModule /\ Is(m, i)
  /\ m # NoModule =>
       /\ addr \in m.base .. m.base + m.size - 1
       /\ (\E i \in ImageAt(m.base) : m.size = SizeOf[i]) \/ IsGone(m)

NamesTheImage(m, i) ==
  /\ i \in listed /\ ready => m # NoModule
  /\ m # NoModule => i \in DOMAIN mapped /\ Is(m, i)

(* What the resolver answers is true of the target while it has not moved: *)
(* every image announced to the client, or linked by the loader, is listed *)
(* once with its base and its size, PSAPI's entries are all mapped; an     *)
(* announced image whose header can be read is the module said to hold its *)
(* addresses, and a module said to hold an address is one mapped there or  *)
(* one unloaded from there, the second only while no header can be read    *)
(* where it was; a module found by name is that image, and an event is     *)
(* parsed as the image it announced unless another one took its place.     *)
(* (resolver.py enumerate_handle, _merge_event_modules, module_at,         *)
(* find_module; debugger.py parse_loaded_dll.)                             *)
ModulesTrue ==
  answer # NoModule =>
    CASE answer.of = "all" -> ListsTheMapped(answer.modules)
      [] answer.of = "at" -> HoldsTheAddress(answer.module, answer.addr)
      [] answer.of = "named" -> NamesTheImage(answer.module, answer.image)
      [] answer.of = "parsed" ->
           \/ answer.image = answer.event.image
           \/ ImageAt(answer.event.base) = {answer.image}

(* "Return list of loaded modules" (resolver.py enumerate): every entry is *)
(* a module that is mapped.                                                *)
OnlyTheLoaded ==
  answer # NoModule /\ answer.of = "all" =>
    \A m \in answer.modules : ImageAt(m.base) # {}
=============================================================================
