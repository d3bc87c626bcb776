SPECIFICATION Spec
CONSTANTS
    MaxColumns = 1
    MaxRows = 1
    MaxLayers = 1
    Retries = TRUE
PROPERTIES
    SearchIsOverPosted
