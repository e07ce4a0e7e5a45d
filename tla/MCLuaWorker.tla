---------------------------- MODULE MCLuaWorker ----------------------------
(* Instances of LuaWorker: a script that listens to an event, binds two     *)
(* chords, one of them to a command string, and declares a configuration,   *)
(* and the empty script.                                                    *)
EXTENDS LuaWorker
CONSTANTS sEmpty, sBar, eFocus, eHidden, cBar, cNone
McListeners == [s \in Scripts |-> [e \in Observable |-> IF s = sBar THEN 1 ELSE 0]]
McBinds == [s \in Scripts |-> IF s = sBar THEN 2 ELSE 0]
McStrings == [s \in Scripts |-> IF s = sBar THEN {2} ELSE {}]
McSetup == [s \in Scripts |-> IF s = sBar THEN cBar ELSE cNone]
=============================================================================
