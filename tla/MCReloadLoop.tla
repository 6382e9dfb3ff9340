----------------------------- MODULE MCReloadLoop -----------------------------
(* An instance of ReloadLoop: a manifest that exchanges an include.               *)
EXTENDS ReloadLoop, TLC

CONSTANTS manifest, include, dropped, config

\* The first save adds the include in the place of another.
MCAdded == [v \in Version |-> IF v = 0 THEN {dropped} ELSE {include}]
\* The file that is added does not parse until it is saved.
MCBrokenNew == [f \in File |-> IF f = include THEN {0} ELSE IF f = config THEN {1} ELSE {}]
=============================================================================
