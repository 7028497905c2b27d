---------------------------- MODULE LoadedModules ----------------------------
(***************************************************************************)
(* Which modules the target has mapped, and what the debugger says of it:  *)
(* the table session.py fills from CREATE_PROCESS and LOAD_DLL events, and *)
(* ModuleResolver, which answers from PSAPI, from that table and from the  *)
(* image headers it reads in the target.                                   *)
(*                                                                         *)
(* An image is mapped at a page and fills pages, so that what holds of one *)
(* address holds of its page.  The target runs while no event is pending;  *)
(* an event freezes it until the client waits for it.  An image the loader *)
(* mapped is known to PSAPI only once the loader linked it.                *)
(***************************************************************************)
EXTENDS Integers, FiniteSets, FiniteSetsExt

CONSTANTS
  Images,       \* the executable and the DLLs the target can map
  Exe,          \* the executable: mapped from the start, never unloaded
  SizeOf,       \* [Images -> the size of the image]
  BasesOf,      \* [Images -> the addresses the image can be mapped at]
  PageSize,
  Pages,        \* the address space is 0 .. Pages * PageSize - 1
  NoModule,     \* Python's None
  Asked,        \* the addresses the client asks about
  MaxLoads,     \* bound: mappings of DLLs in one behaviour
  MaxProtects   \* bound: changes of a page's protection in one behaviour

ASSUME SpaceAssumption ==
  /\ PageSize \in Nat \ {0} /\ Pages \in Nat \ {0}
  /\ Exe \in Images
  /\ SizeOf \in [Images -> Nat \ {0}]
  /\ \A i \in Images : /\ BasesOf[i] \subseteq 1 .. (Pages * PageSize - SizeOf[i])
                        /\ SizeOf[i] % PageSize = 0
                        /\ \A base \in BasesOf[i] : base % PageSize = 0
  /\ Asked \subseteq 0 .. Pages * PageSize - 1
  /\ MaxLoads \in Nat /\ MaxProtects \in Nat

(* None is no event, no name and no module. *)
ASSUME NoneAssumption ==
  /\ NoModule \notin [type : {"CREATE_PROCESS", "LOAD_DLL", "UNLOAD_DLL"},
                      image : Images, base : Nat]
  /\ NoModule \notin [full : BOOLEAN, image : Images]
  /\ NoModule \notin [base : Nat, source : {"psapi", "events"},
                      name : [full : BOOLEAN, image : Images] \cup {NoModule}, size : Nat]

VARIABLES
  mapped,      \* [mapped images -> base address]
  listed,      \* the mapped images the loader has linked
  ready,       \* EnumProcessModulesEx answers: the loader is initialised
  unreadable,  \* the committed pages a read fails on
  pending,     \* the debug event the target is frozen on, or NoModule
  recorded,    \* session.loaded_modules[pid]: [base -> the size last read]
  held,        \* the last LOAD_DLL event the client received, or NoModule
  answer,      \* the last answer, or NoModule once the target has moved on
  departed,    \* history: the images unmapped, each with the base it had
  loads, protects

targetVars == <<mapped, listed, ready, unreadable, pending, departed, loads, protects>>
clientVars == <<recorded, held, answer>>

Addresses == 0 .. Pages * PageSize - 1
PageOf(addr) == addr \div PageSize

Span(i) == mapped[i] .. mapped[i] + SizeOf[i] - 1
ImageAt(base) == {i \in DOMAIN mapped : mapped[i] = base}
Holding(addr) == {i \in DOMAIN mapped : addr \in Span(i)}
Readable(addr) == Holding(addr) # {} /\ PageOf(addr) \notin unreadable

-----------------------------------------------------------------------------
(* The target. *)

Running == pending = NoModule

Load(i, base) ==
  /\ Running /\ loads < MaxLoads
  /\ i \in Images \ DOMAIN mapped /\ base \in BasesOf[i]
  /\ \A a \in base .. base + SizeOf[i] - 1 : Holding(a) = {}
  /\ mapped' = [j \in DOMAIN mapped \cup {i} |-> IF j = i THEN base ELSE mapped[j]]
  /\ pending' = [type |-> "LOAD_DLL", image |-> i, base |-> base]
  /\ loads' = loads + 1
  /\ answer' = NoModule
  /\ UNCHANGED <<listed, ready, unreadable, departed, protects, recorded, held>>

(* The loader unlinks an image and unmaps it; its pages lose their         *)
(* protection with it.                                                     *)
Unload(i) ==
  /\ Running /\ i \in DOMAIN mapped \ {Exe}
  /\ mapped' = [j \in DOMAIN mapped \ {i} |-> mapped[j]]
  /\ listed' = listed \ {i}
  /\ unreadable' = unreadable \ {PageOf(a) : a \in Span(i)}
  /\ departed' = departed \cup {<<i, mapped[i]>>}
  /\ pending' = [type |-> "UNLOAD_DLL", image |-> i, base |-> mapped[i]]
  /\ answer' = NoModule
  /\ UNCHANGED <<ready, loads, protects, recorded, held>>

Link(i) ==
  /\ Running /\ i \in DOMAIN mapped \ listed
  /\ listed' = listed \cup {i}
  /\ answer' = NoModule
  /\ UNCHANGED <<mapped, ready, unreadable, pending, departed, loads, protects, recorded, held>>

LoaderReady ==
  /\ Running /\ ~ready
  /\ ready' = TRUE
  /\ answer' = NoModule
  /\ UNCHANGED <<mapped, listed, unreadable, pending, departed, loads, protects, recorded, held>>

Protect(page) ==
  /\ Running /\ protects < MaxProtects
  /\ Holding(page * PageSize) # {}
  /\ unreadable' = (unreadable \ {page}) \cup ({page} \ unreadable)
  /\ protects' = protects + 1
  /\ answer' = NoModule
  /\ UNCHANGED <<mapped, listed, ready, pending, departed, loads, recorded, held>>

-----------------------------------------------------------------------------
(* debugger.wait_event: the images are recorded as the loader reports      *)
(* them.  UNLOAD_DLL is not looked at.                                     *)

record_module(base) ==
  IF base = 0 \/ base \in DOMAIN recorded THEN recorded
  ELSE [b \in DOMAIN recorded \cup {base} |-> IF b = base THEN 0 ELSE recorded[b]]

WaitEvent ==
  /\ ~Running
  /\ recorded' = IF pending.type \in {"CREATE_PROCESS", "LOAD_DLL"}
                 THEN record_module(pending.base) ELSE recorded
  /\ held' = IF pending.type = "LOAD_DLL" THEN pending ELSE held
  /\ pending' = NoModule
  /\ answer' = NoModule
  /\ UNCHANGED <<mapped, listed, ready, unreadable, departed, loads, protects>>

-----------------------------------------------------------------------------
(* ModuleResolver.  A name is the path PSAPI gives (a listed image's), the *)
(* export directory's file name (a DLL's, when its last page can be read), *)
(* or no name: the same image can go by either.                            *)

Path(i) == [full |-> TRUE, image |-> i]
ExportName(i) == [full |-> FALSE, image |-> i]

(* The size, and the name, the header at base gives: the header is read    *)
(* before the export directory, and keeps what it gave when that fails.    *)
header_size(base) ==
  IF Readable(base) /\ ImageAt(base) # {}
  THEN SizeOf[CHOOSE i \in ImageAt(base) : TRUE] ELSE 0

export_name(base) ==
  LET named == {i \in ImageAt(base) \ {Exe} :
                  Readable(base) /\ Readable(base + SizeOf[i] - 1)}
  IN IF named = {} THEN NoModule ELSE ExportName(CHOOSE i \in named : TRUE)

module_file_name(base) ==
  LET linked == ImageAt(base) \cap listed
  IN IF ready /\ linked # {} THEN Path(CHOOSE i \in linked : TRUE) ELSE export_name(base)

decorate(base, size, source) ==
  [base |-> base, source |-> source, name |-> module_file_name(base),
   size |-> IF header_size(base) # 0 THEN header_size(base) ELSE size]

enum_process_modules ==
  IF ready THEN {decorate(mapped[i], 0, "psapi") : i \in listed} ELSE {}

(* The records PSAPI did not report, decorated as copies: the table itself *)
(* keeps the sizes it has.                                                 *)
merge_event_modules(modules) ==
  LET known == {m.base : m \in modules}
  IN modules \cup {decorate(b, recorded[b], "events") : b \in DOMAIN recorded \ known}

enumerate == merge_event_modules(enum_process_modules)

Lowest(modules) == CHOOSE m \in modules : \A n \in modules : m.base <= n.base

\* Mutant of find_containing: the end of a module taken as its own.
find_containing_end(modules, addr) ==
  LET holding == {m \in modules : /\ m.size # 0
                                  /\ m.base <= addr /\ addr <= m.base + m.size}
  IN IF holding = {} THEN NoModule ELSE Lowest(holding)

find_containing(modules, addr) ==
  LET holding == {m \in modules : /\ m.size # 0
                                  /\ m.base <= addr /\ addr < m.base + m.size}
  IN IF holding = {} THEN NoModule ELSE Lowest(holding)

(* Decorating the records module_at answers from leaves in the table the   *)
(* size each header had, for the time it cannot be read.                   *)
decorated_records == {decorate(b, recorded[b], "events") : b \in DOMAIN recorded}

module_at(addr) ==
  find_containing(IF recorded = <<>> THEN enumerate ELSE decorated_records, addr)

find_module(image) ==
  LET named == {m \in enumerate : m.name # NoModule /\ m.name.image = image}
  IN IF named = {} THEN NoModule ELSE Lowest(named)

(* debugger.parse_loaded_dll: the image mapped where the event said, or    *)
(* the file it named.                                                      *)
parse_loaded_dll(event) ==
  LET there == {i \in ImageAt(event.base) : \A a \in Span(i) : Readable(a)}
  IN IF there = {} THEN event.image ELSE CHOOSE i \in there : TRUE

-----------------------------------------------------------------------------
(* The client's questions. *)

EnumModules ==
  /\ answer' = [of |-> "all", modules |-> enumerate]
  /\ UNCHANGED <<targetVars, recorded, held>>

ModuleAt(addr) ==
  /\ answer' = [of |-> "at", addr |-> addr, module |-> module_at(addr)]
  /\ recorded' = [b \in DOMAIN recorded |-> decorate(b, recorded[b], "events").size]
  /\ UNCHANGED <<targetVars, held>>

FindModule(i) ==
  /\ answer' = [of |-> "named", image |-> i, module |-> find_module(i)]
  /\ UNCHANGED <<targetVars, recorded, held>>

ParseLoadedDll ==
  /\ held # NoModule
  /\ answer' = [of |-> "parsed", event |-> held, image |-> parse_loaded_dll(held)]
  /\ UNCHANGED <<targetVars, recorded, held>>

-----------------------------------------------------------------------------
ModulesInit ==
  \E base \in BasesOf[Exe] :
    /\ mapped = [i \in {Exe} |-> base]
    /\ pending = [type |-> "CREATE_PROCESS", image |-> Exe, base |-> base]
    /\ listed = {} /\ ready = FALSE /\ unreadable = {}
    /\ recorded = <<>> /\ held = NoModule /\ answer = NoModule
    /\ departed = {} /\ loads = 0 /\ protects = 0

Target ==
  \/ \E i \in Images : \E base \in BasesOf[i] : Load(i, base)
  \/ \E i \in Images : Unload(i)
  \/ \E i \in Images : Link(i)
  \/ LoaderReady
  \/ \E page \in 0 .. Pages - 1 : Protect(page)

Questions ==
  \/ EnumModules
  \/ \E addr \in Asked : ModuleAt(addr)
  \/ \E i \in Images : FindModule(i)
  \/ ParseLoadedDll
=============================================================================
