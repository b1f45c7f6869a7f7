CONSTANTS
  MaxInitial = 2
  MaxConditions = 4
  MaxRequests = 5
  MaxEditors = 2
SPECIFICATION Spec
CHECK_DEADLOCK FALSE
INVARIANTS TypeOK ViewsShowConditions LinksNameConditions ProvidersFollowEditor
PROPERTY FiltersHitTheirConditions
