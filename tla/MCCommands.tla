------------------------------ MODULE MCCommands ------------------------------
(***************************************************************************)
(* What the shell's commands work on. The parts share no variable but the   *)
(* store of files: a behaviour is one of one part, the focus, and the other *)
(* parts stay as they are, since their steps in between would change        *)
(* nothing the focus looks at.                                              *)
(***************************************************************************)
EXTENDS Config, Package, Editor, Users, Services, History, Net, Gui, Calc

VARIABLE focus

settingsVars == <<config_entries, log_minimum_level, saved>>
installVars == <<package_entries, installing, disturbed, sound, missing>>
sessionVars == <<lines, cursor, dirty, editing, savedLines, saveFailed>>
fileParts == <<storeVars, settingsVars, installVars, sessionVars>>
tableParts == <<usersVars, servicesVars, historyVars, netVars, guiVars, line>>
commandsVars == <<focus, fileParts, tableParts>>

CommandsInit ==
    /\ focus \in {"config", "package", "editor", "users", "services", "history", "net", "gui", "calc"}
    /\ IF focus = "editor"
       THEN EditorInit
       ELSE StoreInit /\ (focus \notin {"config", "package"} => mounted) /\ lines = <<>> /\ cursor = 0 /\ dirty = FALSE /\ editing = FALSE
            /\ savedLines = <<>> /\ saveFailed = FALSE
    /\ config_entries = config_defaults /\ log_minimum_level = "info"
    /\ saved = [memory |-> {config_defaults}, disk |-> {config_defaults}]
    /\ package_entries = {} /\ installing = Idle /\ disturbed = {} /\ missing = {}
    /\ sound = [table |-> TRUE, memory |-> TRUE, disk |-> TRUE]
    /\ UsersInit /\ ServicesInit /\ HistoryInit /\ NetInit /\ GuiInit /\ CalcInit

CommandsNext ==
    /\ UNCHANGED focus
    /\ \/ /\ focus = "config" /\ ConfigNext
          /\ UNCHANGED <<installVars, sessionVars, tableParts>>
       \/ /\ focus = "package" /\ PackageNext
          /\ UNCHANGED <<settingsVars, sessionVars, tableParts>>
       \/ /\ focus = "editor" /\ EditorNext
          /\ UNCHANGED <<settingsVars, installVars, tableParts>>
       \/ /\ focus = "users" /\ UsersNext
          /\ UNCHANGED <<fileParts, servicesVars, historyVars, netVars, guiVars, line>>
       \/ /\ focus = "services" /\ ServicesNext
          /\ UNCHANGED <<fileParts, usersVars, historyVars, netVars, guiVars, line>>
       \/ /\ focus = "history" /\ HistoryNext
          /\ UNCHANGED <<fileParts, usersVars, servicesVars, netVars, guiVars, line>>
       \/ /\ focus = "net" /\ NetNext
          /\ UNCHANGED <<fileParts, usersVars, servicesVars, historyVars, guiVars, line>>
       \/ /\ focus = "gui" /\ GuiNext
          /\ UNCHANGED <<fileParts, usersVars, servicesVars, historyVars, netVars, line>>
       \/ /\ focus = "calc" /\ CalcNext
          /\ UNCHANGED <<fileParts, usersVars, servicesVars, historyVars, netVars, guiVars>>

CommandsSpec == CommandsInit /\ [][CommandsNext]_commandsVars

-----------------------------------------------------------------------------
MCDefaults == <<[key |-> <<"loglevel">>, value |-> <<"info">>]>>

\* No level, a plain entry, one whose key contains "=", and one that does not fit.
MCSettings ==
    {[key |-> LogKey, value |-> <<"x">>], [key |-> <<"a">>, value |-> <<"1">>],
     [key |-> <<"a", "b">>, value |-> <<"2">>], [key |-> <<"c">>, value |-> <<"3", "4", "5">>]}

File(name, content) == [file |-> name, content |-> content]

\* Two versions of one package, another package that shares a file with it, and a
\* manifest with a bad line.
MCManifests ==
    {[source |-> "p1", name |-> "p", version |-> "1", files |-> <<File("f", "f1"), File("g", "g1")>>],
     [source |-> "p2", name |-> "p", version |-> "2", files |-> <<File("f", "f2"), File("g", "g2")>>],
     [source |-> "q", name |-> "q", version |-> "1", files |-> <<File("g", "q1")>>],
     [source |-> "r", name |-> "q", version |-> "0", files |-> <<File("f", "q0"), File(NoFile, "")>>]}

\* Sectors a write did not reach: blank ones, or what an earlier version left there.
MCLeftovers ==
    [n \in FileNames |->
        CASE n = "cfg" -> {<< <<"loglevel", "warn">> >>}
          [] n = "idx" -> {{}, {[name |-> "p", version |-> "1", source |-> "p1", installed_files |-> 2]}}
          [] n = "text" -> {<<>>, << <<"b">> >>}
          [] n = "other" -> {<<>>}
          [] OTHER -> {"mixed"}]

MCTypedLines == {<<"a">>, <<>>}
MCOldTexts == {NoFile, << <<"a", "b">>, <<>>, <<"a">> >>}

MCBuiltIn == <<"root", "guest">>
MCServiceOrder == <<"log", "fs">>

MCLocalIp == <<1, 100>>
MCGateway == <<1, 1>>
MCAddresses == {MCLocalIp, MCGateway, <<2, 5>>}
=============================================================================
