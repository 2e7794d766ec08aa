SPECIFICATION Spec
CONSTANTS
    Loader = loader
    NoOne = nobody
    Consumer = consumer
    Handlers = {h1, h2}
SYMMETRY HandlerSymmetry
INVARIANTS NoDataRace OnlyPopBlocks
CHECK_DEADLOCK FALSE
