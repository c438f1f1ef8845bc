CONSTANT Repeated = FALSE
SPECIFICATION Spec
INVARIANT ReadinessFailureNeverResumes
