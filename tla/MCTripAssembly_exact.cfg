SPECIFICATION AssemblySpec
CONSTANTS
  Brief <- AssemblyBrief
  Plan <- AssemblyPlan
  Findings <- AssemblyOutcomes
  Routes <- AssemblyRoutes
  Party = 2
INVARIANT
  PlacesAreExact
CHECK_DEADLOCK FALSE
