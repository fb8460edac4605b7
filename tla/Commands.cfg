\* Settings, packages, editor, accounts, services and log, history, network, windows, calculator.
SPECIFICATION CommandsSpec
CONSTANTS
    FileNames = {"cfg", "idx", "text", "f", "g", "other"}
    NoFile = NoFile
    Unreadable = Unreadable
    Leftovers <- MCLeftovers
    CONFIG_FILE_NAME = "cfg"
    CONFIG_ENTRY_MAX = 2
    FileParts = 5
    config_defaults <- MCDefaults
    Settings <- MCSettings
    Levels = {"info", "warn"}
    OtherFiles = {"other"}
    PACKAGE_INDEX_FILE = "idx"
    PACKAGE_ENTRY_MAX = 1
    Manifests <- MCManifests
    path = "text"
    EDITOR_MAX_LINES = 2
    EDITOR_LINE_MAX = 1
    TypedLines <- MCTypedLines
    OldTexts <- MCOldTexts
    USER_ENTRY_MAX = 3
    BuiltIn <- MCBuiltIn
    NewNames = {"new", "newer"}
    Passwords = {"root", "guest", "x"}
    NoPassword = NoPassword
    ServiceOrder <- MCServiceOrder
    LOG_BUFFER_MAX = 2
    LogLevels = {2, 3}
    LOG_INFO = 2
    MaxEvents = 3
    MaxServiceTicks = 1
    SHELL_HISTORY_MAX = 3
    Words = {"ls", "history", "clearhist"}
    Addresses <- MCAddresses
    LocalIp <- MCLocalIp
    Gateway <- MCGateway
    ARP_CACHE_MAX = 2
    UDP_MAX_SOCKETS = 2
    UDP_MAX_PAYLOAD = 1472
    IPV4_MAX_PAYLOAD = 1400
    Lengths = {0, 1393, 1473}
    FirstEphemeral = 3
    LastPort = 4
    MaxCalls = 2
    WM_MAX_WINDOWS = 8
    MENU_MAX_MENUS = 8
    MENU_ITEM_MAX = 8
    BTN_MAX_BUTTONS = 16
    ICONS_MAX_ICONS = 16
    Wide = 64
    Narrow = 32
    Typed = {"0", "1", "2", "3", "-", "+", "*", "/", "%", "(", ")", " "}
    MaxTyped = 5
INVARIANTS InstalledIsWhole ActiveIsEnabled StampsAgree OneEntryEach FramesAccounted RegistriesAgree PrintsTheValue
PROPERTIES SavedIsLoaded LevelFollows QuitKeepsText LogIsRecent HistoryIsRecent
CHECK_DEADLOCK FALSE
