SPECIFICATION LockedSpec
CONSTANTS
  Harts = {h0, h1, h2}
  TicketMax = 3
  Data = {a, b}
  Zero = z
  Size = 2
INVARIANT MutualExclusion
PROPERTIES FunctionsAreAtomic EveryWaiterServed
