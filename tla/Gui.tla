--------------------------------- MODULE Gui ---------------------------------
(***************************************************************************)
(* The registries of gui/: windows, menus, buttons and icons, filled by     *)
(* desktop_init at boot and by the demo commands of the shell later. A      *)
(* registry gives out ids and never frees an entry; the demos start some    *)
(* over and add to others. Drawing, which only reads them, is left out, and *)
(* so are clicks: nothing delivers one.                                     *)
(***************************************************************************)
EXTENDS Integers, Sequences

CONSTANTS
    WM_MAX_WINDOWS, MENU_MAX_MENUS, MENU_ITEM_MAX, BTN_MAX_BUTTONS, ICONS_MAX_ICONS

\* The demos name the windows they make by number, the third one too.
ASSUME GuiAssumption ==
    /\ WM_MAX_WINDOWS \in Nat /\ WM_MAX_WINDOWS >= 3
    /\ MENU_MAX_MENUS \in Nat /\ MENU_ITEM_MAX \in Nat
    /\ BTN_MAX_BUTTONS \in Nat /\ ICONS_MAX_ICONS \in Nat

VARIABLES
    windows, menus, buttons, icons,     \* a registry each
    desktop_start_button_id
guiVars == <<windows, menus, buttons, icons, desktop_start_button_id>>

\* wm_init, menu_init, btn_init and icons_init; "active" is the active window or
\* menu, the pressed button, the selected icon.
Fresh == [entries |-> <<>>, count |-> 0, next |-> 1, active |-> 0]

\* Mutant: an id is given out and counted although no slot is free.
EntryAnyway(registry, max, entry) ==
    [registry EXCEPT !.entries = IF Len(@) < max THEN Append(@, entry) ELSE @,
                     !.count = @ + 1, !.next = @ + 1]

\* wm_create_window, menu_create, btn_create, icons_add: a full registry stays as it is;
\* the entry carries the next id.
NewEntry(registry, max, entry) ==
    IF Len(registry.entries) = max THEN registry
    ELSE [registry EXCEPT !.entries = Append(@, entry),
                          !.count = @ + 1, !.next = @ + 1]

\* The id such a call returns, 0 from a full registry.
NewId(registry, max) == IF Len(registry.entries) = max THEN 0 ELSE registry.next

\* The first window and the first menu become the active one.
FirstActive(registry) ==
    IF registry.active = 0 /\ registry.entries # <<>>
    THEN [registry EXCEPT !.active = registry.entries[1].id] ELSE registry

Window(id) == [id |-> id]
Menu(id, window, items) == [id |-> id, window |-> window, items |-> items]
Button(id, window) == [id |-> id, window |-> window, pressed |-> FALSE]
Icon(id) == [id |-> id]

wm_create_window(registry) ==
    FirstActive(NewEntry(registry, WM_MAX_WINDOWS, Window(registry.next)))

\* menu_create, then menu_add_item as often as there are texts and room.
menu_create(registry, window, texts) ==
    FirstActive(NewEntry(registry, MENU_MAX_MENUS,
                         Menu(registry.next, window, IF texts < MENU_ITEM_MAX THEN texts ELSE MENU_ITEM_MAX)))

btn_create(registry, window) ==
    NewEntry(registry, BTN_MAX_BUTTONS, Button(registry.next, window))

btn_set_pressed(registry, id, pressed) ==
    LET at == {i \in DOMAIN registry.entries : registry.entries[i].id = id} IN
    IF at = {} THEN registry
    ELSE [registry EXCEPT !.entries = [i \in DOMAIN @ |-> IF i \in at THEN [@[i] EXCEPT !.pressed = pressed] ELSE @[i]],
                          !.active = IF pressed THEN id ELSE 0]

icons_add(registry) == NewEntry(registry, ICONS_MAX_ICONS, Icon(registry.next))

icons_add_default_icons(registry) ==
    icons_add(icons_add(icons_add(icons_add(icons_add(icons_add(registry))))))

\* desktop_init and desktop_add_default_icons, over what the four init functions left.
GuiInit ==
    /\ windows = wm_create_window(Fresh)
    /\ menus = menu_create(Fresh, NewId(Fresh, WM_MAX_WINDOWS), 3)
    /\ desktop_start_button_id = NewId(Fresh, BTN_MAX_BUTTONS)
    /\ buttons = btn_create(Fresh, NewId(Fresh, WM_MAX_WINDOWS))
    /\ icons = icons_add_default_icons(Fresh)

\* The desktop's own window is gone after this, its menu and its button are not.
DemoWindows == [wm_create_window(wm_create_window(wm_create_window(Fresh))) EXCEPT !.active = 1]

wm_demo_layout ==
    windows' = DemoWindows /\ UNCHANGED <<menus, buttons, icons, desktop_start_button_id>>

menu_demo_layout ==
    /\ menus' = menu_create(menu_create(Fresh, 0, 3), 0, 2)
    /\ UNCHANGED <<windows, buttons, icons, desktop_start_button_id>>

\* Three more buttons each time, the first of them pressed; those before stay pressed.
btn_demo_layout ==
    /\ windows' = DemoWindows
    /\ buttons' = btn_set_pressed(btn_create(btn_create(btn_create(buttons, 1), 2), 3),
                                  NewId(buttons, BTN_MAX_BUTTONS), TRUE)
    /\ UNCHANGED <<menus, icons, desktop_start_button_id>>

\* desktop_render: drawing the taskbar releases the Start button.
desktop_render ==
    /\ buttons' = btn_set_pressed(buttons, desktop_start_button_id, FALSE)
    /\ UNCHANGED <<windows, menus, icons, desktop_start_button_id>>

GuiNext == wm_demo_layout \/ menu_demo_layout \/ btn_demo_layout \/ desktop_render

-----------------------------------------------------------------------------
Ids(registry) == {registry.entries[i].id : i \in DOMAIN registry.entries}

\* gui/: through any sequence of demos, also past the end of a registry, ids name one
\* entry each and are counted and never given out again, what is active exists,
\* a button said to be pressed is, and menus and buttons belong to a window that
\* exists (or to none).
RegistriesAgree ==
    /\ \A registry \in {windows, menus, buttons, icons} :
        /\ \A i, j \in DOMAIN registry.entries :
             registry.entries[i].id = registry.entries[j].id => i = j
        /\ \A id \in Ids(registry) : 0 < id /\ id < registry.next
        /\ registry.count = Len(registry.entries) /\ registry.next = registry.count + 1
        /\ registry.active \in Ids(registry) \cup {0}
    /\ \A i \in DOMAIN buttons.entries :
        /\ buttons.entries[i].id = buttons.active => buttons.entries[i].pressed
        /\ buttons.entries[i].window \in Ids(windows)
    /\ \A i \in DOMAIN menus.entries : menus.entries[i].window \in Ids(windows) \cup {0}

\* The registries by themselves.
GuiSpec == GuiInit /\ [][GuiNext]_guiVars
=============================================================================
