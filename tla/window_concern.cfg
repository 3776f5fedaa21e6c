SPECIFICATION Spec
PROPERTIES ConcernClickOpens
