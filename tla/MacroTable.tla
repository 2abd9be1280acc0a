----------------------------- MODULE MacroTable -----------------------------
(***************************************************************************)
(* User commands and their reference counts (Mactab.cpp), on top of        *)
(* SaveStack.  The value of a command is undefined, a primitive or the     *)
(* index of a macro in mac_table.  The table of commands and the items of  *)
(* the save stack hold counted references to macros; the item that         *)
(* \begin{foo} pushes holds the meaning of \endfoo without counting it.    *)
(***************************************************************************)
EXTENDS SaveStack, Integers

CONSTANTS
  Relax,       \* the primitive \relax, a member of Vals
  EndCommand,  \* EndCommand[s] is the command \ends of the environment s
  MaxMacros    \* bound on the macros created in a run

MacroIds == 1..MaxMacros

ASSUME MacrosAssumption ==
  /\ MaxMacros \in Nat /\ IsFiniteSet(CmdKeys)
  /\ MacroIds \cup {Relax} \subseteq Vals
  /\ {Relax, Undef, Null} \cap MacroIds = {}
  /\ EndCommand \in [Envs -> CmdKeys]

VARIABLES
  mac_table,   \* [ptr, ref] of every macro; ptr: the macro has not been destroyed
  envCodes,    \* SaveAuxEnv.cc of the environments on the save stack, innermost last
  dangling     \* a destroyed macro was expanded

macroVars == <<vars, mac_table, envCodes, dangling>>

is_user(v) == v \in MacroIds

\* Redefinition flags: \def, \newcommand, \renewcommand, \providecommand.
Redefs == {"always", "if_undef", "if_defined", "skip"}

MInit ==
  /\ Init
  /\ mac_table = <<>> /\ envCodes = <<>> /\ dangling = FALSE

-----------------------------------------------------------------------------
\* Reference counts.

mc_new_macro(table) == Append(table, [ptr |-> TRUE, ref |-> 0])

incr_macro_ref(table, v) ==
  IF is_user(v) THEN [table EXCEPT ![v].ref = @ + 1] ELSE table

\* The last reference destroys the macro.  The program aborts when the count
\* is zero already: -1 stands for this.
delete_macro_ref(table, v) ==
  IF is_user(v) THEN [table EXCEPT ![v].ref = @ - 1, ![v].ptr = @ /\ table[v].ref # 1]
  ELSE table

\* Variant for a mutant: a global assignment does not release the old value.
References_keep_old(table, k, c, gbl) ==
  LET counted == incr_macro_ref(table, c)
  IN IF gbl \/ must_push(eqtb[k].level, cur_level) THEN counted
     ELSE delete_macro_ref(counted, eqtb[k].val)

\* eq_define: the new value is counted; the old one goes to the save stack
\* with its reference, or is released.
References(table, k, c, gbl) ==
  LET counted == incr_macro_ref(table, c)
  IN IF ~gbl /\ must_push(eqtb[k].level, cur_level) THEN counted
     ELSE delete_macro_ref(counted, eqtb[k].val)

-----------------------------------------------------------------------------
\* Definitions.

ok_to_define(k, redef) ==
  LET undef_or_relax == eqtb[k].val \in {Undef, Relax}
  IN CASE redef = "always" -> TRUE
       [] redef = "if_defined" -> ~undef_or_relax
       [] OTHER -> undef_or_relax

\* \def, \newcommand and the like: the macro is created and assigned to \k, or
\* it is deleted before it has an index.
mac_define(k, gbl, redef) ==
  /\ Len(mac_table) < MaxMacros
  /\ ok_to_define(k, redef)
  /\ eq_define(k, Len(mac_table) + 1, gbl)
  /\ mac_table' = References(mc_new_macro(mac_table), k, Len(mac_table) + 1, gbl)
  /\ UNCHANGED <<envCodes, dangling>>

\* \let\k=\j, \global\let\k=\j; redef: \k must be new (\cs_new_eq:NN).
M_let(k, j, gbl, redef) ==
  /\ redef => ok_to_define(k, "if_undef")
  /\ eq_define(k, eqtb[j].val, gbl)
  /\ mac_table' = References(mac_table, k, eqtb[j].val, gbl)
  /\ UNCHANGED <<envCodes, dangling>>

\* \let\k\relax or \let\k\undefined
M_let_primitive(k, c, gbl) ==
  /\ eq_define(k, c, gbl)
  /\ mac_table' = References(mac_table, k, c, gbl)
  /\ UNCHANGED <<envCodes, dangling>>

-----------------------------------------------------------------------------
\* Environments.

\* \begin{s} saves the meaning of \ends; an undefined command is \relax.
T_begin_env(s) ==
  /\ T_begin(s)
  /\ LET cc == eqtb[EndCommand[s]].val
     IN envCodes' = Append(envCodes, IF cc = Undef THEN Relax ELSE cc)
  /\ UNCHANGED <<mac_table, dangling>>

\* The innermost item for s, counted among the items of environments.
EnvIndex(s) ==
  LET at == Max({ i \in EnvItems : saveStack[i].name = s })
  IN Cardinality({ i \in EnvItems : i <= at })

\* \end{s} expands the meaning \ends had when the environment was opened.
T_end_env(s) ==
  /\ T_end(s)
  /\ dangling' = (dangling \/ (/\ is_env_on_stack(s)
                               /\ is_user(envCodes[EnvIndex(s)])
                               /\ ~mac_table[envCodes[EnvIndex(s)]].ptr))
  /\ UNCHANGED <<mac_table, envCodes>>

-----------------------------------------------------------------------------
\* The destructors.

\* SaveAuxCmd: the saved value is released if the current one is global,
\* otherwise the current one is.
PopCommand ==
  /\ PopValue
  /\ LET p == Last(saveStack)
     IN mac_table' = delete_macro_ref(mac_table, IF eqtb[p.pos].level = 1 THEN p.val ELSE eqtb[p.pos].val)
  /\ UNCHANGED <<envCodes, dangling>>

PopEnvironment ==
  /\ PopEnv
  /\ envCodes' = Front(envCodes)
  /\ UNCHANGED <<mac_table, dangling>>

MCommand ==
  \/ \E v \in GroupKinds : (push_level(v) \/ T_close(v)) /\ UNCHANGED <<mac_table, envCodes, dangling>>
  \/ sendgroup /\ UNCHANGED <<mac_table, envCodes, dangling>>
  \/ \E s \in Envs : T_begin_env(s) \/ T_end_env(s)
  \/ \E k \in CmdKeys, gbl \in BOOLEAN, redef \in Redefs : mac_define(k, gbl, redef)
  \/ \E k \in CmdKeys, j \in CmdKeys, gbl \in BOOLEAN, redef \in BOOLEAN : M_let(k, j, gbl, redef)
  \/ \E k \in CmdKeys, c \in {Relax, Undef}, gbl \in BOOLEAN : M_let_primitive(k, c, gbl)

MNext ==
  \/ ~popping /\ MCommand
  \/ PopCommand
  \/ PopEnvironment
  \/ PopBoundary /\ UNCHANGED <<mac_table, envCodes, dangling>>

MSpec == MInit /\ [][MNext]_macroVars

-----------------------------------------------------------------------------
\* Properties.

\* The commands and the saved commands that refer to macro i.
Commands(i) == { k \in CmdKeys : eqtb[k].val = i }
SavedCommands(i) == { n \in DOMAIN saveStack : saveStack[n].type = "value" /\ saveStack[n].val = i }

\* A count is the number of commands, current or waiting on the save stack,
\* whose meaning is the macro, which exists as long as there is one.  In particular
\* delete_macro_ref never finds a count of zero ("Fatal: macro reference count
\* negative").
ReferencesCounted ==
  \A i \in DOMAIN mac_table :
    /\ mac_table[i].ref = Cardinality(Commands(i)) + Cardinality(SavedCommands(i))
    /\ mac_table[i].ptr <=> Commands(i) \cup SavedCommands(i) # {}

\* "\mac is destroyed (if nobody else points to it, i.e. if the reference count
\* is zero)": the item of an environment points to the macro \end will expand.
EndCodeExists == ~dangling

=============================================================================
