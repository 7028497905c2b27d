--------------------------- MODULE MCTargetImages ---------------------------
EXTENDS TargetImages

CONSTANTS exe, ntdll, plugin, target, detour, none

MCImages == {exe, ntdll, plugin}
(* In half pages: the executable ends where a DLL can begin, and the two   *)
(* DLLs can be mapped at one base, one after the other.                    *)
MCSizeOf == [i \in MCImages |-> IF i = ntdll THEN 2 ELSE 4]
MCBasesOf == [i \in MCImages |-> CASE i = exe -> {2} [] i = ntdll -> {6, 10} [] OTHER -> {6}]
MCNames == {Path(exe)}
=============================================================================
