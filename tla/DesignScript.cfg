CONSTANTS
    None = None
    Pin = Pin
    Esp32 = Esp32
    Foreign = Foreign
    Rail5V = Rail5V
    Rail3V3 = Rail3V3
    RailGND = RailGND
    GndNames = {RailGND}
    LibPins <- MCLibPins
    Band <- MCBand
    Parent <- MCParent
    TemplateUses <- MCTemplateUses
    SymbolPins <- AllSymbolPins
    PinMap <- AllPinMap
    ExpanderLibs = {"expander"}
    Rails <- MCRails
    DefaultBuses <- MCDefaultBuses
    BoardNames = {Esp32}
    Hints <- MCHints
    Picks = {}
    BusIds <- MCBusIds
    MaxComponents = 2
    MaxBuses = 2
    MaxConnections = 3
    MaxMisfits = 1
SPECIFICATION Spec
INVARIANT
    ScriptAlwaysRuns
