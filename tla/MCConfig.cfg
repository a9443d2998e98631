\* The status of a page in every order of two calls, the mount and storage.
SPECIFICATION StorageSpec
CONSTANTS
    Connectors = {c1, c2}
    Chains = {x}
    Configured = {x}
    DefaultChain = x
    None = None
    Tasks = {t1, t2}
    Calls = {"connect", "disconnect", "reconnect"}
    AsyncStorage = TRUE
    Ssr = TRUE
    InitialState = TRUE
    ReconnectOnMount = TRUE
    EarlyReload = FALSE
    Rerender = TRUE
    MaxLife = 1
PROPERTIES
    KeepsStatusPromise
    Settles
